---------------------------- MODULE Spec2Model ----------------------------
(***************************************************************************)
(* A model of the scheduling-related logic of the MindStack UI:            *)
(*   - utils/strengthUtils.ts      strength normaliser and classifier      *)
(*   - hooks/useGraphData          useGraphMetrics (priority, queue)       *)
(*   - components/Revision         revision page (rating modal, reviews)   *)
(*   - MindGraph/GraphSettings.tsx settings panel (presets, overrides)     *)
(*                                                                         *)
(* Numbers.  A JavaScript number x that stands for a strength is held in   *)
(* fixed point as the integer x * 10000, so 1.0 is One, 0.5 is Half and a  *)
(* legacy percentage 65 is Pct(6500).  Every legacy input is a multiple of *)
(* 100 units, so raw / 100 is exact.                                       *)
(***************************************************************************)
EXTENDS Integers, Sequences, FiniteSets, Bags, TLC

VARIABLES
    \* ---- strengthUtils.ts: the inputs of one call and what it returned
    node,            \* the graph node handed to hasNodeBeenStudied
    raw,             \* the raw strength handed to normalize/format
    hasBeenStudied,  \* the flag handed to formatStrengthContextual
    result,          \* [fn, ...] the last call and its return value
    \* ---- useGraphMetrics and the queue panel of the Revision page
    now,             \* the current day (new Date())
    revisionQueue,   \* useGraphMetrics state: the nodes of the queue
    queueLoading,    \* useGraphMetrics state: loading
    queueError,      \* useGraphMetrics state: error
    queueRequests,   \* getRevisionQueue requests in flight, by origin
    reviewRequests,  \* postReview requests in flight
    received,        \* the queue as the server last sent it
    displayed,       \* the queue rows on screen
    notice,          \* the last notification shown
    \* ---- MindGraph/GraphSettings.tsx
    settings,        \* useState<GraphSettings>
    loading,         \* useState: loadSettings in progress
    saving,          \* useState: saveSettings in progress
    settingsError,   \* useState: error
    showAdvanced,    \* useState: advanced section open
    loadRequest,     \* getGraphSettings in flight
    saveRequests,    \* updateGraphSettings requests in flight
    lastOp,          \* the handler that ran last and its argument
    explicit,        \* sMax/gFactor as last typed by the user
    override,        \* the same, forgotten when a preset is selected
    edits,           \* number of user edits so far
    \* ---- the interval scheduler (utils/revisionUtils)
    schedIn,         \* the prior state and settings handed to schedule
    policy,          \* the rating factors and seeds the scheduler uses
    schedOut,        \* what schedule returned, by rating
    \* ---- components/Revision: items, agenda, statistics, completion
    clock,           \* new Date(), in quarter days since 2020-01-01T00:00Z
    tz,              \* USER_TZ, the offset of the user from UTC in quarter days
    serverItems,     \* the revision items the backend stores
    revisionItems,   \* useState: the items as last loaded
    selectedDate,    \* useState: the day shown
    agenda,          \* useState: the agenda as last computed
    stats,           \* useState: the statistics as last computed
    completingItems, \* useState: ids with a completion under way
    showRatingModal, \* useState
    selectedRevisionItem, \* useState: the item of the rating modal
    loadingRevisionItems, \* useState
    mounted,         \* mountedRef.current
    itemsRequests,   \* getRevisionItems requests in flight
    completeRequests, \* completeRevisionItem requests in flight
    bulkRequests,    \* bulkCompleteRevisionItems requests in flight
    revNotice,       \* the last notification of the page
    bulkOutcome,     \* the last bulk completion: results and what was reported
    revOps,          \* how many loads, completions, ... were started
    \* ---- the propagation engine
    propIn,          \* the graph, the reviewed node, the delta and the depth
    propQueue,       \* the frontier: nodes with their hop distance
    propLevel,       \* the hop distance at which a node was reached, -1 if not
    propDeltas,      \* the strength delta of each node so far
    propExpanded,    \* the nodes expanded so far, with their hop distance
    propTraversed,   \* the ids of the edges followed so far
    propStrength,    \* the strength of each node
    propDone,        \* the traversal has returned
    \* ---- hooks/useGraphData: the graph of the viewer and its edits
    graphData,       \* useState<GraphData | null>: the nodes and edges of the viewer
    dataLoading,     \* useState: loading
    dataError,       \* useState: error
    backendGraph,    \* the graph the backend stores, with the next ids it hands out
    graphCalls,      \* the requests of the hook in flight
    graphOps,        \* how many creations, deletions, ... were started
    graphResults,    \* what the handlers of the hook returned so far
    dataFrom,        \* the fetch (by order of issue) graphData was last set from
    \* ---- hooks/useGraphData: updateNodePosition
    positionUpdateTimeoutRef, \* useRef<Map>: the pending timer of each node, 0 if none
    positionCalls,   \* the calls of updateNodePosition: timer and promise of each
    \* ---- AddProblemFormStepper in ImportedProblemsPage
    currentStep,     \* the step of the Add Problem wizard on display
    formData,        \* title, platform, difficulty, topic, outcome and timeSpent of the form
    isValidTitle,    \* the title typed last passed validTitleRegex (or was empty)
    selectedNodeIds, \* the nodes chosen in GraphAndNodeSelector
    showCreateGraphModal, \* CreateFirstGraphModal is open
    hasGraphs,       \* what checkForGraphs found (true until it answers)
    isSubmitting,    \* handleSubmit awaits createProblem
    selectedProblem, \* the imported problem ImportedProblemsPage shows the wizard for, or Null
    pageLoading,     \* load of ImportedProblemsPage awaits getTodaysAssignments
    graphsCheck,     \* checkForGraphs awaits getGraphs
    userGraphs,      \* backend, the number of graphs of the user
    problemCalls,    \* createProblem requests in flight
    \* ---- Date: the time zone of the browser
    zone             \* the time zone of the browser, which the local fields of a Date follow

strengthVars == <<node, raw, hasBeenStudied, result>>

queueVars ==
    <<now, revisionQueue, queueLoading, queueError, queueRequests,
      reviewRequests, received, displayed, notice>>

settingsVars ==
    <<settings, loading, saving, settingsError, showAdvanced, loadRequest,
      saveRequests, lastOp, explicit, override, edits>>

scheduleVars ==
    <<schedIn, policy, schedOut>>

revisionVars ==
    <<clock, tz, serverItems, revisionItems, selectedDate, agenda,
      stats, completingItems, showRatingModal, selectedRevisionItem,
      loadingRevisionItems, mounted, itemsRequests, completeRequests,
      bulkRequests, revNotice, bulkOutcome, revOps>>

propagateVars ==
    <<propIn, propQueue, propLevel, propDeltas, propExpanded,
      propTraversed, propStrength, propDone>>

graphVars ==
    <<graphData, dataLoading, dataError, backendGraph, graphCalls,
      graphOps, graphResults, dataFrom>>

positionVars ==
    <<positionUpdateTimeoutRef, positionCalls>>

wizardVars ==
    <<currentStep, formData, isValidTitle, selectedNodeIds,
      showCreateGraphModal, hasGraphs, isSubmitting, selectedProblem,
      pageLoading, graphsCheck, userGraphs, problemCalls>>

zoneVars ==
    <<zone>>

vars ==
    <<strengthVars, queueVars, settingsVars, scheduleVars, revisionVars,
      propagateVars, graphVars, positionVars, wizardVars, zoneVars>>

\* what the actions of one part leave alone
notStrength ==
    <<queueVars, settingsVars, scheduleVars, revisionVars,
      propagateVars, graphVars, positionVars, wizardVars, zoneVars>>
notQueue ==
    <<strengthVars, settingsVars, scheduleVars, revisionVars,
      propagateVars, graphVars, positionVars, wizardVars, zoneVars>>
notSettings ==
    <<strengthVars, queueVars, scheduleVars, revisionVars,
      propagateVars, graphVars, positionVars, wizardVars, zoneVars>>
notSchedule ==
    <<strengthVars, queueVars, settingsVars, revisionVars,
      propagateVars, graphVars, positionVars, wizardVars, zoneVars>>
notRevision ==
    <<strengthVars, queueVars, settingsVars, scheduleVars,
      propagateVars, graphVars, positionVars, wizardVars, zoneVars>>
notPropagate ==
    <<strengthVars, queueVars, settingsVars, scheduleVars, revisionVars,
      graphVars, positionVars, wizardVars, zoneVars>>
notGraph ==
    <<strengthVars, queueVars, settingsVars, scheduleVars, revisionVars,
      propagateVars, positionVars, wizardVars, zoneVars>>
notPosition ==
    <<strengthVars, queueVars, settingsVars, scheduleVars, revisionVars,
      propagateVars, graphVars, wizardVars, zoneVars>>
notWizard ==
    <<strengthVars, queueVars, settingsVars, scheduleVars, revisionVars,
      propagateVars, graphVars, positionVars, zoneVars>>
notZone ==
    <<strengthVars, queueVars, settingsVars, scheduleVars, revisionVars,
      propagateVars, graphVars, positionVars, wizardVars>>

---------------------------------------------------------------------------
(* JavaScript values that may be absent *)

Undefined == [kind |-> "undefined"]
Null == [kind |-> "null"]
Num(x) == [kind |-> "number", v |-> x]
Str(s) == [kind |-> "string", v |-> s]

\* JavaScript truthiness of a value used as a condition (x && ...)
Truthy(j) ==
    CASE j.kind = "number" -> j.v # 0
      [] j.kind = "string" -> j.v # ""
      [] OTHER -> FALSE

Min(a, b) == IF a < b THEN a ELSE b
Max(a, b) == IF a > b THEN a ELSE b

---------------------------------------------------------------------------
(* Fixed point *)

\* p hundredths: Pct(50) is 0.5, Pct(6500) is 65
Pct(p) == p * 100
One == Pct(100)
Half == Pct(50)

\* Math.round(normalized * 100): the nearest whole percent, halves upwards
RoundPercent(n) == (n + 50) \div 100

---------------------------------------------------------------------------
(* utils/strengthUtils.ts *)

\* mutants of normalizeStrength: the legacy division forgotten; >= for >
normalizeStrength_noLegacy(r) == Max(0, Min(One, r))

normalizeStrength_geq(r) ==
    IF r >= One
    THEN Max(0, Min(One, r \div 100))
    ELSE Max(0, Min(One, r))

normalizeStrength(r) ==
    IF r > One
    THEN Max(0, Min(One, r \div 100))
    ELSE Max(0, Min(One, r))

\* mutants of formatStrengthContextual: the raw value compared with 0.5;
\* inclusive tier limits
formatStrengthContextual_rawHalf(strength, studied) ==
    LET normalized == normalizeStrength(strength)
        pct == RoundPercent(normalized)
    IN  IF ~studied /\ strength = Half
        THEN [display |-> "Not Studied", colorClass |-> "text-gray-500",
              showPercentage |-> FALSE, percent |-> pct]
        ELSE IF studied /\ normalized < Pct(30)
        THEN [display |-> "Needs Work", colorClass |-> "text-red-600",
              showPercentage |-> TRUE, percent |-> pct]
        ELSE IF studied /\ normalized < Pct(60)
        THEN [display |-> "In Progress", colorClass |-> "text-orange-600",
              showPercentage |-> TRUE, percent |-> pct]
        ELSE IF studied /\ normalized < Pct(80)
        THEN [display |-> "Good", colorClass |-> "text-blue-600",
              showPercentage |-> TRUE, percent |-> pct]
        ELSE IF studied /\ normalized >= Pct(80)
        THEN [display |-> "Mastered", colorClass |-> "text-green-600",
              showPercentage |-> TRUE, percent |-> pct]
        ELSE [display |-> "Percentage", colorClass |-> "text-gray-700",
              showPercentage |-> TRUE, percent |-> pct]

formatStrengthContextual_inclusive(strength, studied) ==
    LET normalized == normalizeStrength(strength)
        pct == RoundPercent(normalized)
    IN  IF ~studied /\ normalized = Half
        THEN [display |-> "Not Studied", colorClass |-> "text-gray-500",
              showPercentage |-> FALSE, percent |-> pct]
        ELSE IF studied /\ normalized <= Pct(30)
        THEN [display |-> "Needs Work", colorClass |-> "text-red-600",
              showPercentage |-> TRUE, percent |-> pct]
        ELSE IF studied /\ normalized <= Pct(60)
        THEN [display |-> "In Progress", colorClass |-> "text-orange-600",
              showPercentage |-> TRUE, percent |-> pct]
        ELSE IF studied /\ normalized <= Pct(80)
        THEN [display |-> "Good", colorClass |-> "text-blue-600",
              showPercentage |-> TRUE, percent |-> pct]
        ELSE IF studied
        THEN [display |-> "Mastered", colorClass |-> "text-green-600",
              showPercentage |-> TRUE, percent |-> pct]
        ELSE [display |-> "Percentage", colorClass |-> "text-gray-700",
              showPercentage |-> TRUE, percent |-> pct]

\* display "Percentage" stands for the fallback's `${percent}%` text
formatStrengthContextual(strength, studied) ==
    LET normalized == normalizeStrength(strength)
        pct == RoundPercent(normalized)
    IN  IF ~studied /\ normalized = Half
        THEN [display |-> "Not Studied", colorClass |-> "text-gray-500",
              showPercentage |-> FALSE, percent |-> pct]
        ELSE IF studied /\ normalized < Pct(30)
        THEN [display |-> "Needs Work", colorClass |-> "text-red-600",
              showPercentage |-> TRUE, percent |-> pct]
        ELSE IF studied /\ normalized < Pct(60)
        THEN [display |-> "In Progress", colorClass |-> "text-orange-600",
              showPercentage |-> TRUE, percent |-> pct]
        ELSE IF studied /\ normalized < Pct(80)
        THEN [display |-> "Good", colorClass |-> "text-blue-600",
              showPercentage |-> TRUE, percent |-> pct]
        ELSE IF studied /\ normalized >= Pct(80)
        THEN [display |-> "Mastered", colorClass |-> "text-green-600",
              showPercentage |-> TRUE, percent |-> pct]
        ELSE [display |-> "Percentage", colorClass |-> "text-gray-700",
              showPercentage |-> TRUE, percent |-> pct]

hasNodeBeenStudied(n) ==
    IF Truthy(n.artifactCount) /\ n.artifactCount.v > 0 THEN TRUE
    ELSE IF Truthy(n.reviewCount) /\ n.reviewCount.v > 0 THEN TRUE
    ELSE IF n.strength # 0 /\ n.strength # Half THEN TRUE
    ELSE IF Truthy(n.lastVisited) /\ n.lastVisited # Null THEN TRUE
    ELSE FALSE

\* useGraphMetrics.getStrengthContextual(strength, node), node given
getStrengthContextual(strength, n) ==
    formatStrengthContextual(strength, hasNodeBeenStudied(n))

---------------------------------------------------------------------------
(* Inputs of the strength functions *)

\* legacy percentages run over 5, 10, ..., 5 * MaxLegacy
MaxLegacy == 21

Thresholds == {0, Pct(30), Half, Pct(60), Pct(80), One}

RawValues ==
    {Pct(5 * k) : k \in -2..20}
    \cup {t + d : t \in Thresholds, d \in {-1, 1}}
    \cup {Pct(500 * q) : q \in 1..MaxLegacy}
    \cup {Pct(101), Pct(150), Pct(2999), Pct(3000), Pct(5000), Pct(5001),
          Pct(5999), Pct(6000), Pct(7999), Pct(8000), Pct(10000), Pct(10001)}

Counts == {Undefined, Num(0), Num(2)}

Timestamps == {Undefined, Null, Str("2025-06-01T10:00:00Z")}

NodeInputs ==
    [artifactCount : Counts, reviewCount : Counts,
     strength : RawValues, lastVisited : Timestamps]

StrengthInputs ==
    /\ node \in NodeInputs
    /\ raw = node.strength
    /\ hasBeenStudied \in BOOLEAN
    /\ result = [fn |-> "none"]

\* the strength functions not under study: one fixed input, nothing called
StrengthIdle ==
    /\ node = [artifactCount |-> Undefined, reviewCount |-> Undefined,
               strength |-> Half, lastVisited |-> Undefined]
    /\ raw = Half
    /\ hasBeenStudied = FALSE
    /\ result = [fn |-> "none"]

CallNormalizeStrength ==
    /\ result.fn = "none"
    /\ result' = [fn |-> "normalizeStrength", value |-> normalizeStrength(raw)]
    /\ UNCHANGED <<node, raw, hasBeenStudied>>
    /\ UNCHANGED notStrength

\* normalizeStrength applied to a value normalizeStrength returned
CallNormalizeAgain ==
    /\ result.fn = "normalizeStrength"
    /\ result' = [fn |-> "normalizeAgain", first |-> result.value,
                  value |-> normalizeStrength(result.value)]
    /\ UNCHANGED <<node, raw, hasBeenStudied>>
    /\ UNCHANGED notStrength

CallFormatStrengthContextual ==
    /\ result.fn = "none"
    /\ result' = [fn |-> "formatStrengthContextual",
                  value |-> formatStrengthContextual(raw, hasBeenStudied)]
    /\ UNCHANGED <<node, raw, hasBeenStudied>>
    /\ UNCHANGED notStrength

CallHasNodeBeenStudied ==
    /\ result.fn = "none"
    /\ result' = [fn |-> "hasNodeBeenStudied", value |-> hasNodeBeenStudied(node)]
    /\ UNCHANGED <<node, raw, hasBeenStudied>>
    /\ UNCHANGED notStrength

CallGetStrengthContextual ==
    /\ result.fn = "none"
    /\ result' = [fn |-> "getStrengthContextual",
                  value |-> getStrengthContextual(raw, node)]
    /\ UNCHANGED <<node, raw, hasBeenStudied>>
    /\ UNCHANGED notStrength

---------------------------------------------------------------------------
(* Claims about strengthUtils.ts, checked under SpecStrength *)

\* C1: normalizeStrength is defined on every raw value and returns
\* min(1, raw/100) when raw > 1 and max(0, raw) otherwise, so its result
\* lies in [0,1].
C1_NormalizeValue ==
    /\ result.fn = "none" => ENABLED CallNormalizeStrength
    /\ result.fn = "normalizeStrength" =>
          /\ result.value = (IF raw > One THEN Min(One, raw \div 100)
                                          ELSE Max(0, raw))
          /\ result.value \in 0..One

\* a legacy percentage below 100 was divided by 100
C1_Witness ==
    /\ result.fn = "normalizeStrength"
    /\ raw = Pct(6500)
    /\ result.value = Pct(65)

\* C2: normalizeStrength is idempotent: normalising a value it returned
\* gives that value back, for negative, unit, legacy and over-100 inputs.
C2_Idempotent ==
    result.fn = "normalizeAgain" => result.value = result.first

\* the second application acted on the image of a legacy value in (1,100]
C2_Witness ==
    /\ result.fn = "normalizeAgain"
    /\ raw = Pct(10000)
    /\ result.first = One
    /\ result.value = One

\* C3: a strength that normalises to 0.5 with hasBeenStudied = false is
\* classified 'Not Studied' with the percentage hidden.
C3_NotStudied ==
    (/\ result.fn = "formatStrengthContextual"
     /\ ~hasBeenStudied
     /\ normalizeStrength(raw) = Half)
    => (/\ result.value.display = "Not Studied"
        /\ result.value.showPercentage = FALSE)

\* the legacy value 50 (normalised 0.5) of an unstudied node was classified
C3_Witness ==
    /\ result.fn = "formatStrengthContextual"
    /\ ~hasBeenStudied
    /\ raw = Pct(5000)
    /\ result.value.display = "Not Studied"

\* C4: with hasBeenStudied = true exactly one tier is returned, decided by
\* the normalised value n: Needs Work iff n < 0.3, In Progress iff
\* 0.3 <= n < 0.6, Good iff 0.6 <= n < 0.8, Mastered iff n >= 0.8; the
\* percentage fallback is returned only when not studied and n # 0.5.
C4_Tiers ==
    result.fn = "formatStrengthContextual" =>
        LET n == normalizeStrength(raw)
            d == result.value.display
        IN  /\ hasBeenStudied =>
                  /\ d \in {"Needs Work", "In Progress", "Good", "Mastered"}
                  /\ (d = "Needs Work") <=> (n < Pct(30))
                  /\ (d = "In Progress") <=> (Pct(30) <= n /\ n < Pct(60))
                  /\ (d = "Good") <=> (Pct(60) <= n /\ n < Pct(80))
                  /\ (d = "Mastered") <=> (n >= Pct(80))
            /\ (d = "Percentage") => (~hasBeenStudied /\ n # Half)

\* a studied node exactly on the 0.3 limit was classified In Progress
C4_Witness ==
    /\ result.fn = "formatStrengthContextual"
    /\ hasBeenStudied
    /\ raw = Pct(30)
    /\ result.value.display = "In Progress"

\* C5: hasNodeBeenStudied(node) is true iff the node has a linked artifact,
\* or a review, or a strength different from 0.5 (strength 0 included), or
\* a last-visited timestamp.
C5_StudiedIff ==
    result.fn = "hasNodeBeenStudied" =>
        (result.value <=>
            \/ (node.artifactCount.kind = "number" /\ node.artifactCount.v > 0)
            \/ (node.reviewCount.kind = "number" /\ node.reviewCount.v > 0)
            \/ node.strength # Half
            \/ node.lastVisited.kind = "string")


---------------------------------------------------------------------------
(* hooks/useGraphData: useGraphMetrics, as the Revision page uses it *)

\* node.metric?.field
MetricField(n, f) == IF n.metric.kind = "object" THEN n.metric[f] ELSE Undefined

getNodeStatus(n) == "ok"

\* mutant: ?? instead of ||, a strength of 0 is kept
getNodeStrength_keepZero(n) ==
    IF n.strength.kind = "number" THEN n.strength.v ELSE One

\* node.strength || 1.0
getNodeStrength(n) == IF Truthy(n.strength) THEN n.strength.v ELSE One

getNodeDueDate(n) == Null

getNodePredictedWeakDate(n) == Null

isNodeDue(n) ==
    LET dueDate == getNodeDueDate(n)
    IN  IF dueDate = Null THEN FALSE ELSE dueDate.v <= now

isNodePredictedWeak(n, horizonDays) ==
    LET predictedWeakDate == getNodePredictedWeakDate(n)
    IN  IF predictedWeakDate = Null THEN FALSE
        ELSE predictedWeakDate.v <= now + horizonDays

\* priorities are in fixed point like strengths: 100 is 100 * One
getNodePriority(n) ==
    LET status == getNodeStatus(n)
        strength == getNodeStrength(n)
        isDue == isNodeDue(n)
        isPredictedWeak == isNodePredictedWeak(n, 14)
    IN  (IF isDue THEN 100 * One ELSE 0)
        + (IF isPredictedWeak THEN 50 * One ELSE 0)
        + (One - strength) * 30
        + (IF status = "due" THEN 20 * One ELSE 0)
        + (IF status = "stale" THEN 10 * One ELSE 0)

(* src/hooks/useGraphData.ts: the same hook reading node.metric *)

getNodeStatusMetric(n) ==
    IF n.metric.kind # "object" THEN "ok" ELSE n.metric.status

\* node.metric?.strength || 0.5
getNodeStrengthMetric(n) ==
    IF Truthy(MetricField(n, "strength")) THEN n.metric.strength.v ELSE Half

getNodeDueDateMetric(n) ==
    IF ~Truthy(MetricField(n, "dueDate")) THEN Null ELSE n.metric.dueDate

getNodePredictedWeakDateMetric(n) ==
    IF ~Truthy(MetricField(n, "predictedWeakDate")) THEN Null
    ELSE n.metric.predictedWeakDate

isNodeDueMetric(n) ==
    LET dueDate == getNodeDueDateMetric(n)
    IN  IF dueDate = Null THEN FALSE ELSE dueDate.v <= now

isNodePredictedWeakMetric(n, horizonDays) ==
    LET predictedWeakDate == getNodePredictedWeakDateMetric(n)
    IN  IF predictedWeakDate = Null THEN FALSE
        ELSE predictedWeakDate.v <= now + horizonDays

getNodePriorityMetric(n) ==
    LET status == getNodeStatusMetric(n)
        strength == getNodeStrengthMetric(n)
        isDue == isNodeDueMetric(n)
        isPredictedWeak == isNodePredictedWeakMetric(n, 14)
    IN  (IF isDue THEN 100 * One ELSE 0)
        + (IF isPredictedWeak THEN 50 * One ELSE 0)
        + (One - strength) * 30
        + (IF status = "due" THEN 20 * One ELSE 0)
        + (IF status = "stale" THEN 10 * One ELSE 0)

---------------------------------------------------------------------------
(* components/Revision: the MindGraph revision queue panel *)

\* mutant of the comparator: ascending
queueCompare_ascending(a, b) == getNodePriority(a) - getNodePriority(b)

\* (a, b) => getNodePriority(b) - getNodePriority(a)
queueCompare(a, b) == getNodePriority(b) - getNodePriority(a)

\* Array.prototype.sort with a comparator: a stable sort (ECMAScript 2019),
\* computed by insertion; x comes after every element it does not precede
RECURSIVE SortInsert(_, _)
SortInsert(sorted, x) ==
    IF sorted = <<>> THEN <<x>>
    ELSE IF queueCompare(Head(sorted), x) > 0 THEN <<x>> \o sorted
    ELSE <<Head(sorted)>> \o SortInsert(Tail(sorted), x)

RECURSIVE ArraySort(_)
ArraySort(q) ==
    IF q = <<>> THEN <<>>
    ELSE SortInsert(ArraySort(SubSeq(q, 1, Len(q) - 1)), q[Len(q)])

\* .slice(0, n)
Slice(q, n) == SubSeq(q, 1, Min(n, Len(q)))

\* what the panel shows for a queue: the spinner or the empty text (no
\* rows), or the rows, which are the queue sorted and cut to ten
QueueRows(queue, graphLoading) ==
    IF graphLoading \/ Len(queue) = 0 THEN <<>> ELSE Slice(ArraySort(queue), 10)

\* the queue after a render: .sort() sorts the state array in place
QueueAfterRender(queue, graphLoading) ==
    IF graphLoading \/ Len(queue) = 0 THEN queue ELSE ArraySort(queue)

\* what the server may send: nodes of the catalogue, each at most once
MaxQueue == 3

Metric(s, st, due, pw) ==
    [kind |-> "object", strength |-> s, status |-> st,
     dueDate |-> due, predictedWeakDate |-> pw]

Catalogue ==
    {[id |-> 1, strength |-> Num(0), dueDate |-> Undefined, metric |-> Undefined],
     [id |-> 2, strength |-> Num(One), dueDate |-> Num(0),
      metric |-> Metric(Num(One), "due", Num(0), Num(5))],
     [id |-> 3, strength |-> Num(Pct(40)), dueDate |-> Num(30),
      metric |-> Metric(Num(Pct(40)), "stale", Num(30), Num(20))]}

Distinct(q) == \A i, j \in DOMAIN q : i # j => q[i].id # q[j].id

QueueResponses ==
    UNION {{q \in [1..n -> Catalogue] : Distinct(q)} : n \in 0..MaxQueue}

\* the ratings a caller may hand to a handler, in tenths: 25 is 2.5
Tenths(k) == k * 10

RatingInputs ==
    {Undefined, Num(0), Num(25), Num(Tenths(3)), Num(Tenths(6))}

\* requests in flight, capped
MaxFetches == 2
MaxReviews == 1

QueueInit ==
    /\ now = 0
    /\ revisionQueue = <<>>
    /\ queueLoading = FALSE
    /\ queueError = Null
    /\ queueRequests = EmptyBag
    /\ reviewRequests = EmptyBag
    /\ received = <<>>
    /\ displayed = <<>>
    /\ notice = "none"

QueueIdle == QueueInit

One1(x) == SetToBag({x})

\* useEffect([user?.id]) -> loadGraphRevisionQueue -> fetchRevisionQueue, up
\* to the await; the panel re-renders with the spinner
loadGraphRevisionQueue ==
    /\ BagCardinality(queueRequests) < MaxFetches
    /\ queueLoading' = TRUE
    /\ queueError' = Null
    /\ queueRequests' = queueRequests (+) One1("mount")
    /\ displayed' = QueueRows(revisionQueue, TRUE)
    /\ UNCHANGED <<now, revisionQueue, reviewRequests, received, notice>>
    /\ UNCHANGED notQueue

\* fetchRevisionQueue after the await, for any request in flight: success
\* with data, success: false, or a thrown error; then the re-render.  A
\* request made by handleNodeReview continues into its showSuccess.
fetchRevisionQueueSettled ==
    \E origin \in BagToSet(queueRequests) :
        /\ \/ \E data \in QueueResponses :
                /\ received' = data
                /\ revisionQueue' = QueueAfterRender(data, FALSE)
                /\ displayed' = QueueRows(data, FALSE)
                /\ UNCHANGED queueError
           \/ /\ queueError' \in {Str("Failed to fetch revision queue"),
                                 Str("HTTP error")}
              /\ revisionQueue' = QueueAfterRender(revisionQueue, FALSE)
              /\ displayed' = QueueRows(revisionQueue, FALSE)
              /\ UNCHANGED received
        /\ queueLoading' = FALSE
        /\ queueRequests' = queueRequests (-) One1(origin)
        /\ notice' = IF origin = "review" THEN "Review Posted" ELSE notice
        /\ UNCHANGED <<now, reviewRequests>>
        /\ UNCHANGED notQueue

\* handleNodeReview up to the await of postReview
handleNodeReview(nodeId, rating) ==
    /\ BagCardinality(reviewRequests) < MaxReviews
    /\ reviewRequests' =
          reviewRequests (+) One1([nodeId |-> nodeId, rating |-> rating])
    /\ UNCHANGED <<now, revisionQueue, queueLoading, queueError, queueRequests,
                   received, displayed, notice>>
    /\ UNCHANGED notQueue

\* a rating button of a row of the panel, or any other caller
ClickNodeReview ==
    \E i \in DOMAIN displayed, rating \in RatingInputs :
        handleNodeReview(displayed[i].id, rating)

\* handleNodeReview after the await, response.success: the queue is fetched
\* again (fetchRevisionQueue up to its await)
postReviewSucceeded ==
    \E r \in BagToSet(reviewRequests) :
        /\ BagCardinality(queueRequests) < MaxFetches
        /\ reviewRequests' = reviewRequests (-) One1(r)
        /\ queueLoading' = TRUE
        /\ queueError' = Null
        /\ queueRequests' = queueRequests (+) One1("review")
        /\ displayed' = QueueRows(revisionQueue, TRUE)
        /\ UNCHANGED <<now, revisionQueue, received, notice>>
        /\ UNCHANGED notQueue

\* handleNodeReview after the await: success: false, or a thrown error
postReviewFailed ==
    \E r \in BagToSet(reviewRequests) :
        /\ reviewRequests' = reviewRequests (-) One1(r)
        /\ notice' \in {"Review Failed", "Posting review error"}
        /\ UNCHANGED <<now, revisionQueue, queueLoading, queueError,
                       queueRequests, received, displayed>>
        /\ UNCHANGED notQueue

---------------------------------------------------------------------------
(* Claims about the revision queue, checked under SpecQueue *)

\* the priority the specification gives a node: due and predicted-weak by
\* the node's dates, the bonus by its status, 30 * (1 - strength)
ClaimedIsDue(n) ==
    \/ (n.dueDate.kind = "number" /\ n.dueDate.v <= now)
    \/ (MetricField(n, "dueDate").kind = "number" /\ n.metric.dueDate.v <= now)

ClaimedIsPredictedWeak(n) ==
    /\ MetricField(n, "predictedWeakDate").kind = "number"
    /\ n.metric.predictedWeakDate.v <= now + 14

ClaimedStatus(n) == IF n.metric.kind = "object" THEN n.metric.status ELSE "ok"

ClaimedPriority(n) ==
    (IF ClaimedIsDue(n) THEN 100 * One ELSE 0)
    + (IF ClaimedIsPredictedWeak(n) THEN 50 * One ELSE 0)
    + 30 * (One - n.strength.v)
    + (CASE ClaimedStatus(n) = "due" -> 20 * One
         [] ClaimedStatus(n) = "stale" -> 10 * One
         [] OTHER -> 0)

\* C6: for every node of the queue that has a strength, getNodePriority is
\* 100*isDue + 50*isPredictedWeak + 30*(1 - strength) + statusBonus.
C6_PriorityFormula ==
    \A i \in DOMAIN revisionQueue :
        LET n == revisionQueue[i]
        IN  n.strength.kind = "number" => getNodePriority(n) = ClaimedPriority(n)

\* the same statement restricted to nodes with no dates and status ok, where
\* only the strength term is left: it fails for strength 0 alone
C6_StrengthTermOnly ==
    \A i \in DOMAIN revisionQueue :
        LET n == revisionQueue[i]
        IN  (n.strength.kind = "number" /\ n.metric.kind = "undefined"
             /\ n.dueDate.kind = "undefined")
            => getNodePriority(n) = 30 * (One - n.strength.v)

\* C22: of two nodes of the queue that agree on due, predicted-weak and
\* status and whose strengths lie in [0, 1], the one with the strictly lower
\* strength (0 included) has the strictly higher priority.
C22_WeakerFirst ==
    \A i, j \in DOMAIN revisionQueue :
        LET a == revisionQueue[i]
            b == revisionQueue[j]
        IN  (/\ a.strength.kind = "number" /\ b.strength.kind = "number"
             /\ a.strength.v \in 0..One /\ b.strength.v \in 0..One
             /\ isNodeDue(a) = isNodeDue(b)
             /\ isNodePredictedWeak(a, 14) = isNodePredictedWeak(b, 14)
             /\ getNodeStatus(a) = getNodeStatus(b)
             /\ a.strength.v < b.strength.v)
            => getNodePriority(a) > getNodePriority(b)

Position(q, id) == CHOOSE i \in DOMAIN q : q[i].id = id

Descending(q) ==
    \A i, j \in DOMAIN q : i < j => getNodePriority(q[i]) >= getNodePriority(q[j])

ValidRating(j) == j.kind = "number" /\ j.v \in {Tenths(k) : k \in 1..5}

\* C10 (node review): a review whose rating is missing or not an integer in
\* 1..5 is rejected, so no postReview request carries such a rating.
C10_InvalidRatingRejected ==
    \A r \in BagToSet(reviewRequests) : ValidRating(r.rating)

---------------------------------------------------------------------------
(* components/MindGraph/GraphSettings.tsx *)
(* gFactor and weakThreshold are held in tenths: 1.1 is 11, 0.4 is 4 *)

Presets == {"gentle", "balanced", "intensive"}

presetConfigs(preset) ==
    CASE preset = "gentle" -> [sMax |-> 240, gFactor |-> 11]
      [] preset = "balanced" -> [sMax |-> 180, gFactor |-> 10]
      [] preset = "intensive" -> [sMax |-> 120, gFactor |-> 9]

\* the initial state of useState and what resetToDefaults sets
DefaultSettings ==
    [preset |-> "balanced", sMax |-> 180, gFactor |-> 10,
     propagationDepth |-> 2, horizonDays |-> 14, weakThreshold |-> 4,
     jitterEnabled |-> TRUE, showGrid |-> TRUE, snapToGrid |-> TRUE]

\* { ...prev, ...patch }
Spread(prev, patch) ==
    [f \in DOMAIN prev \cup DOMAIN patch |->
        IF f \in DOMAIN patch THEN patch[f] ELSE prev[f]]

\* what GET /graph/settings may answer: nothing stored, a stored preset, a
\* stored preset with its own sMax
ServerSettings ==
    {[showGrid |-> FALSE],
     [preset |-> "intensive", sMax |-> 120, gFactor |-> 9, horizonDays |-> 30],
     [preset |-> "gentle", sMax |-> 200, gFactor |-> 11, jitterEnabled |-> FALSE]}

\* the text of a number input, in tenths: 2005 is "200.5"
parseInt(text) == text \div 10
parseFloat(text) == text

\* user edits are counted and capped
MaxEdits == 3

None == <<>>
Some(v) == <<v>>

SettingsInit ==
    /\ settings = DefaultSettings
    /\ loading = TRUE
    /\ saving = FALSE
    /\ settingsError = Null
    /\ showAdvanced = FALSE
    /\ loadRequest = TRUE
    /\ saveRequests = EmptyBag
    /\ lastOp = [op |-> "mount"]
    /\ explicit = [sMax |-> None, gFactor |-> None]
    /\ override = [sMax |-> None, gFactor |-> None]
    /\ edits = 0

\* the panel not under study: never mounted
SettingsIdle ==
    /\ settings = DefaultSettings
    /\ loading = TRUE
    /\ saving = FALSE
    /\ settingsError = Null
    /\ showAdvanced = FALSE
    /\ loadRequest = FALSE
    /\ saveRequests = EmptyBag
    /\ lastOp = [op |-> "none"]
    /\ explicit = [sMax |-> None, gFactor |-> None]
    /\ override = [sMax |-> None, gFactor |-> None]
    /\ edits = 0

\* loadSettings after the await: success with data, success: false, or a throw
loadSettingsSettled ==
    /\ loadRequest
    /\ loadRequest' = FALSE
    /\ \/ \E data \in ServerSettings :
            /\ settings' = Spread(settings, data)
            /\ UNCHANGED settingsError
       \/ UNCHANGED <<settings, settingsError>>
       \/ /\ settingsError' = Str("Failed to load settings")
          /\ UNCHANGED settings
    /\ loading' = FALSE
    /\ lastOp' = [op |-> "loadSettings"]
    /\ UNCHANGED <<saving, showAdvanced, saveRequests, explicit, override, edits>>
    /\ UNCHANGED notSettings

\* the request body of saveSettings
SavePayload_fromPreset(st) ==
    [preset |-> st.preset, sMax |-> presetConfigs(st.preset).sMax,
     gFactor |-> presetConfigs(st.preset).gFactor,
     propagationDepth |-> st.propagationDepth, horizonDays |-> st.horizonDays,
     weakThreshold |-> st.weakThreshold, jitterEnabled |-> st.jitterEnabled]

SavePayload(st) ==
    [preset |-> st.preset, sMax |-> st.sMax, gFactor |-> st.gFactor,
     propagationDepth |-> st.propagationDepth, horizonDays |-> st.horizonDays,
     weakThreshold |-> st.weakThreshold, jitterEnabled |-> st.jitterEnabled]

\* saveSettings up to the await; the button is disabled while saving
saveSettings ==
    /\ ~loading
    /\ ~saving
    /\ saving' = TRUE
    /\ settingsError' = Null
    /\ saveRequests' =
          saveRequests (+) SetToBag({[payload |-> SavePayload(settings),
                                     override |-> override]})
    /\ lastOp' = [op |-> "saveSettings"]
    /\ UNCHANGED <<settings, loading, showAdvanced, loadRequest, explicit,
                   override, edits>>
    /\ UNCHANGED notSettings

\* saveSettings after the await
saveSettingsSettled ==
    \E r \in BagToSet(saveRequests) :
        /\ saveRequests' = saveRequests (-) SetToBag({r})
        /\ \/ UNCHANGED settingsError
           \/ settingsError' \in {Str("Failed to save settings")}
        /\ saving' = FALSE
        /\ lastOp' = [op |-> "saveSettingsSettled"]
        /\ UNCHANGED <<settings, loading, showAdvanced, loadRequest, explicit,
                       override, edits>>
        /\ UNCHANGED notSettings

\* mutant: the new state is built from the defaults instead of prev
handlePresetChange_fromDefaults(preset) ==
    /\ ~loading
    /\ edits < MaxEdits
    /\ settings' = Spread(Spread(DefaultSettings, [preset |-> preset]),
                          presetConfigs(preset))
    /\ lastOp' = [op |-> "handlePresetChange", arg |-> preset]
    /\ override' = [sMax |-> None, gFactor |-> None]
    /\ edits' = edits + 1
    /\ UNCHANGED <<loading, saving, settingsError, showAdvanced, loadRequest,
                   saveRequests, explicit>>
    /\ UNCHANGED notSettings

handlePresetChange(preset) ==
    /\ ~loading
    /\ edits < MaxEdits
    /\ settings' = Spread(Spread(settings, [preset |-> preset]),
                          presetConfigs(preset))
    /\ lastOp' = [op |-> "handlePresetChange", arg |-> preset]
    /\ override' = [sMax |-> None, gFactor |-> None]
    /\ edits' = edits + 1
    /\ UNCHANGED <<loading, saving, settingsError, showAdvanced, loadRequest,
                   saveRequests, explicit>>
    /\ UNCHANGED notSettings

ClickPreset == \E preset \in Presets : handlePresetChange(preset)

handleSettingChange(key, value) ==
    /\ ~loading
    /\ showAdvanced
    /\ edits < MaxEdits
    /\ settings' = [settings EXCEPT ![key] = value]
    /\ lastOp' = [op |-> "handleSettingChange", arg |-> key]
    /\ explicit' = IF key \in DOMAIN explicit
                   THEN [explicit EXCEPT ![key] = Some(value)] ELSE explicit
    /\ override' = IF key \in DOMAIN override
                   THEN [override EXCEPT ![key] = Some(value)] ELSE override
    /\ edits' = edits + 1
    /\ UNCHANGED <<loading, saving, settingsError, showAdvanced, loadRequest,
                   saveRequests>>
    /\ UNCHANGED notSettings

\* the onChange handlers of the advanced inputs
ChangeSMax == \E text \in {2005, 900} : handleSettingChange("sMax", parseInt(text))

ChangeGFactor == \E text \in {15} : handleSettingChange("gFactor", parseFloat(text))

ChangeOther ==
    \/ \E text \in {30} : handleSettingChange("propagationDepth", parseInt(text))
    \/ \E text \in {70, 300} : handleSettingChange("horizonDays", parseInt(text))
    \/ \E text \in {6} : handleSettingChange("weakThreshold", parseFloat(text))
    \/ handleSettingChange("jitterEnabled", ~settings.jitterEnabled)

ToggleAdvanced ==
    /\ ~loading
    /\ showAdvanced' = ~showAdvanced
    /\ lastOp' = [op |-> "setShowAdvanced"]
    /\ UNCHANGED <<settings, loading, saving, settingsError, loadRequest,
                   saveRequests, explicit, override, edits>>
    /\ UNCHANGED notSettings

resetToDefaults ==
    /\ ~loading
    /\ edits < MaxEdits
    /\ settings' = DefaultSettings
    /\ lastOp' = [op |-> "resetToDefaults"]
    /\ explicit' = [sMax |-> None, gFactor |-> None]
    /\ override' = [sMax |-> None, gFactor |-> None]
    /\ edits' = edits + 1
    /\ UNCHANGED <<loading, saving, settingsError, showAdvanced, loadRequest,
                   saveRequests>>
    /\ UNCHANGED notSettings

---------------------------------------------------------------------------
(* Claims about the settings panel, checked under SpecSettings *)

FrameFields ==
    {"propagationDepth", "horizonDays", "weakThreshold", "jitterEnabled",
     "showGrid", "snapToGrid"}

ClaimedPresetDefaults(preset) ==
    CASE preset = "gentle" -> <<240, 11>>
      [] preset = "balanced" -> <<180, 10>>
      [] preset = "intensive" -> <<120, 9>>

\* C8: a step that selects a preset sets the preset name and sets
\* (sMax, gFactor) to that preset's defaults - gentle (240, 1.1), balanced
\* (180, 1.0), intensive (120, 0.9) - and changes none of propagationDepth,
\* horizonDays, weakThreshold, jitterEnabled, showGrid, snapToGrid.
C8_PresetFrame ==
    [][\A preset \in Presets :
          (lastOp' = [op |-> "handlePresetChange", arg |-> preset]
           /\ edits' = edits + 1)
          => /\ settings'.preset = preset
             /\ <<settings'.sMax, settings'.gFactor>> = ClaimedPresetDefaults(preset)
             /\ \A f \in FrameFields : settings'[f] = settings[f]
             /\ DOMAIN settings' = DOMAIN settings]_vars

\* intensive was selected over settings whose other fields had been edited
C8_Witness ==
    /\ lastOp = [op |-> "handlePresetChange", arg |-> "intensive"]
    /\ settings.preset = "intensive"
    /\ settings.sMax = 120
    /\ settings.horizonDays = 7
    /\ settings.jitterEnabled = FALSE

\* C9 as amended: a value of sMax or gFactor the user typed after the last
\* preset selection (or reset) is the value held in settings and the value
\* every saveSettings request sent since then carries; selecting a preset
\* replaces both by the preset's defaults.
C9_OverrideSincePreset ==
    /\ \A k \in DOMAIN override :
          override[k] # None => settings[k] = override[k][1]
    /\ \A r \in BagToSet(saveRequests), k \in DOMAIN override :
          r.override[k] # None => r.payload[k] = r.override[k][1]
    /\ lastOp.op = "handlePresetChange" =>
          /\ settings.sMax = presetConfigs(lastOp.arg).sMax
          /\ settings.gFactor = presetConfigs(lastOp.arg).gFactor

\* gentle was selected, sMax typed as 200, and the save request carries 200
C9_Witness ==
    /\ settings.preset = "gentle"
    /\ override.sMax = Some(200)
    /\ \E r \in BagToSet(saveRequests) :
          r.payload.sMax = 200 /\ r.payload.preset = "gentle"

\* C9: a value of sMax or gFactor the user set explicitly is the value held
\* in settings, whatever presets are selected afterwards.
C9_ExplicitAlwaysWins ==
    \A k \in DOMAIN explicit :
        explicit[k] # None => settings[k] = explicit[k][1]

---------------------------------------------------------------------------
(* The interval scheduler, section 4.3 of the design: utils/revisionUtils  *)
(* is imported by the Revision page but its text is not part of the        *)
(* sources at hand, so schedule follows the design.  Intervals and         *)
(* stabilities are whole days, rating factors and gFactor are tenths.      *)

ScheduleRatings == 1..5

\* The design fixes the shape of the rating factors, not their values:
\* 1-2 reset (factor 0) or shrink, 3 keeps pace, 4-5 accelerate; the seed
\* stability of a first review depends on the rating alone.
Policies ==
    {[factor |-> <<0, 5, 10, 13, 20>>, seed |-> <<1, 1, 2, 3, 4>>],
     [factor |-> <<5, 8, 10, 15, 15>>, seed |-> <<1, 2, 3, 4, 6>>]}

\* Math.round of n / d for n >= 0
RoundDiv(n, d) == (2 * n + d) \div (2 * d)

\* the jitter a call may draw: the two ends of +-10% and no change
JitterDraws(settings_) ==
    IF settings_.jitterEnabled THEN {-10, 0, 10} ELSE {0}

baseInterval_inverted(rating, currentStability, settings_, pol) ==
    LET stability ==
            IF currentStability = Undefined
            THEN pol.seed[rating]
            ELSE currentStability.v
    IN Max(1, RoundDiv(stability * pol.factor[6 - rating] * settings_.gFactor,
                       100))

\* the interval before the cap: stability * factor(rating) * gFactor, at
\* least one day (a scheduled item has a future date, section 4.6)
baseInterval(rating, currentStability, settings_, pol) ==
    LET stability ==
            IF currentStability = Undefined
            THEN pol.seed[rating]
            ELSE currentStability.v
    IN Max(1, RoundDiv(stability * pol.factor[rating] * settings_.gFactor, 100))

\* the cap at sMax days
cappedInterval_uncapped(rating, currentStability, settings_, pol) ==
    baseInterval(rating, currentStability, settings_, pol)

cappedInterval(rating, currentStability, settings_, pol) ==
    Min(baseInterval(rating, currentStability, settings_, pol), settings_.sMax)

\* the jitter is applied to the final (capped) interval
jitteredInterval(interval, draw) == RoundDiv(interval * (100 + draw), 100)

schedule(rating, currentCycle, currentStability, settings_, pol, today, draw) ==
    IF rating \notin ScheduleRatings
    THEN [error |-> "InvalidRating"]
    ELSE LET interval == cappedInterval(rating, currentStability, settings_, pol)
         IN [nextCycle |-> currentCycle + 1,
             nextStability |-> interval,
             interval |-> jitteredInterval(interval, draw),
             nextDueDate |-> today + jitteredInterval(interval, draw),
             draw |-> draw]

\* inputs of the scheduler
MaxCycle == 3

ScheduleSettings ==
    {[sMax |-> m, gFactor |-> g, jitterEnabled |-> j] :
        m \in {1, 120, 240}, g \in {9, 11}, j \in BOOLEAN}

PriorStates ==
    {[currentCycle |-> 0, currentStability |-> Undefined]}
    \cup {[currentCycle |-> MaxCycle, currentStability |-> Num(st)] :
            st \in {1, 100, 300}}

CalledRatings == 0..6

NotCalled == [called |-> FALSE]

ScheduleInputs ==
    /\ schedIn \in {[prior |-> pr, settings |-> st, today |-> 0] :
                        pr \in PriorStates, st \in ScheduleSettings}
    /\ policy \in Policies
    /\ schedOut = [r \in CalledRatings |-> NotCalled]

ScheduleIdle ==
    /\ schedIn = [prior |-> [currentCycle |-> 0, currentStability |-> Undefined],
                  settings |-> [sMax |-> 180, gFactor |-> 10,
                                jitterEnabled |-> TRUE],
                  today |-> 0]
    /\ policy = [factor |-> <<0, 5, 10, 13, 20>>, seed |-> <<1, 1, 2, 3, 4>>]
    /\ schedOut = [r \in CalledRatings |-> NotCalled]

\* one call of schedule on the prior state, once per rating
CallSchedule ==
    \E rating \in CalledRatings, draw \in JitterDraws(schedIn.settings) :
        /\ schedOut[rating] = NotCalled
        /\ schedOut' =
            [schedOut EXCEPT ![rating] =
                [called |-> TRUE,
                 ret |-> schedule(rating, schedIn.prior.currentCycle,
                                  schedIn.prior.currentStability,
                                  schedIn.settings, policy, schedIn.today,
                                  draw)]]
        /\ UNCHANGED <<schedIn, policy>>
        /\ UNCHANGED notSchedule

Scheduled(r) == schedOut[r] # NotCalled /\ "error" \notin DOMAIN schedOut[r].ret

---------------------------------------------------------------------------
(* components/Revision: the revision items, their agenda and statistics.   *)
(* Time is counted in quarter days since 2020-01-01T00:00Z, a date is a    *)
(* day number since 2020-01-01.  The backend and utils/revisionUtils are   *)
(* not part of the sources at hand and follow the design (sections 4.3,    *)
(* 4.5, 4.6 and 5).                                                        *)

Quarters == 4

\* new Date(x).toISOString().split('T')[0]: the UTC date of an instant
isoDate(t) == t \div Quarters

\* the date of an instant on the user's calendar
localDate(t, offset) == (t + offset) \div Quarters

\* ids are decimal strings in the items and numbers in the mutation:
\* parseInt(item.id) and id.toString() are exact on them
ItemIds == 1..3

Item(id, date, done, cycle, stability, last) ==
    [id |-> id, nextRevisionDate |-> date, isCompleted |-> done,
     revisionCycle |-> cycle, stability |-> stability, lastCompleted |-> last]

\* the items of a store in the order the backend lists them (by id)
RECURSIVE ItemsById(_, _)
ItemsById(items, from) ==
    IF from > 3 THEN <<>>
    ELSE (IF \E i \in items : i.id = from
          THEN <<CHOOSE i \in items : i.id = from>>
          ELSE <<>>) \o ItemsById(items, from + 1)

SeqRange(q) == {q[i] : i \in 1..Len(q)}

\* ---- utils/revisionUtils (design section 4.5)

\* getRevisionStats: the streak walks backward from today while some item
\* was completed on the day
RECURSIVE StreakFrom(_, _)
StreakFrom(items, day) ==
    IF day >= 0 /\ \E i \in SeqRange(items) : i.lastCompleted = Num(day)
    THEN 1 + StreakFrom(items, day - 1)
    ELSE 0

getRevisionStats(items, at, offset) ==
    LET today == localDate(at, offset)
        due(i) == localDate(i.nextRevisionDate, offset)
        Overdue(i) == ~i.isCompleted /\ due(i) < today
        Upcoming(i) == ~i.isCompleted /\ due(i) >= today
        Completed(i) == i.isCompleted
    IN [totalRevisions |-> Len(items),
        completedRevisions |-> Len(SelectSeq(items, Completed)),
        upcomingRevisions |-> Len(SelectSeq(items, Upcoming)),
        overdueRevisions |-> Len(SelectSeq(items, Overdue)),
        currentStreak |-> StreakFrom(items, today)]

\* getRevisionAgenda: the days of [from, to] that have items, in order
RECURSIVE AgendaDays(_, _, _, _)
AgendaDays(items, from, to, offset) ==
    IF from > to THEN <<>>
    ELSE LET OnDay(i) ==
                 /\ ~i.isCompleted
                 /\ localDate(i.nextRevisionDate, offset) = from
             listed == SelectSeq(items, OnDay)
         IN (IF listed = <<>> THEN <<>>
             ELSE <<[date |-> from,
                     items |-> [k \in 1..Len(listed) |-> listed[k].id],
                     totalItems |-> Len(listed)]>>)
            \o AgendaDays(items, from + 1, to, offset)

getRevisionAgenda(items, from, to, offset) ==
    AgendaDays(items, from, to, offset)

\* ---- the backend (design sections 4.3, 4.6 and 5)

ServerScheduleSettings == [sMax |-> 180, gFactor |-> 10, jitterEnabled |-> TRUE]

ServerPolicy == [factor |-> <<0, 5, 10, 13, 20>>, seed |-> <<1, 1, 2, 3, 4>>]

\* the rating of a request body as the scheduler takes it: 0 if it is no
\* whole number of stars
wireRating(rating) ==
    IF rating.kind = "number" /\ rating.v % 10 = 0 THEN rating.v \div 10 ELSE 0

HasItem(items, id) == \E i \in items : i.id = id

ItemOf(items, id) == CHOOSE i \in items : i.id = id

\* PUT /revision/revision-items/:id/complete
completeOnServer_keepsCompleted(items, id, rating, at, offset, draw) ==
    IF ~HasItem(items, id) THEN [ok |-> FALSE, error |-> "UnknownSubject"]
    ELSE LET old == ItemOf(items, id)
             sch == schedule(wireRating(rating), old.revisionCycle,
                             old.stability, ServerScheduleSettings,
                             ServerPolicy, localDate(at, offset), draw)
         IN IF "error" \in DOMAIN sch
            THEN [ok |-> FALSE, error |-> sch.error]
            ELSE LET new == Item(id, at + Quarters * sch.interval, TRUE,
                                 sch.nextCycle, Num(sch.nextStability),
                                 Num(localDate(at, offset)))
                 IN [ok |-> TRUE, item |-> new,
                     items |-> (items \ {old}) \cup {new},
                     rating |-> wireRating(rating)]

completeOnServer(items, id, rating, at, offset, draw) ==
    IF ~HasItem(items, id) THEN [ok |-> FALSE, error |-> "UnknownSubject"]
    ELSE LET old == ItemOf(items, id)
             sch == schedule(wireRating(rating), old.revisionCycle,
                             old.stability, ServerScheduleSettings,
                             ServerPolicy, localDate(at, offset), draw)
         IN IF "error" \in DOMAIN sch
            THEN [ok |-> FALSE, error |-> sch.error]
            ELSE LET new == Item(id, at + Quarters * sch.interval, FALSE,
                                 sch.nextCycle, Num(sch.nextStability),
                                 Num(localDate(at, offset)))
                 IN [ok |-> TRUE, item |-> new,
                     items |-> (items \ {old}) \cup {new},
                     rating |-> wireRating(rating)]

\* POST .../revision-items/bulk-complete: every completion on its own
RECURSIVE bulkOnServer(_, _, _, _)
bulkOnServer(items, completions, at, offset) ==
    IF completions = <<>> THEN [items |-> items, results |-> <<>>]
    ELSE LET c == Head(completions)
             one == completeOnServer(items, c.revisionItemId,
                                     c.performanceRating, at, offset, 0)
             rest == bulkOnServer(IF one.ok THEN one.items ELSE items,
                                  Tail(completions), at, offset)
             res == IF one.ok
                    THEN [itemId |-> c.revisionItemId, ok |-> TRUE,
                          newDueDate |-> one.item.nextRevisionDate]
                    ELSE [itemId |-> c.revisionItemId, ok |-> FALSE,
                          error |-> one.error]
         IN [items |-> rest.items, results |-> <<res>> \o rest.results]

\* ---- the page

\* completion requests sent
MaxCompletes == 1
MaxRatings == 3
MaxBulks == 1
MaxNavs == 1
MaxDeletes == 1

\* the ratings handleCompleteRevision is called with: 0, 5 and 2.5 stars
CompletionRatings == {Num(0), Num(Tenths(5)), Num(25)}

\* the backend's items at the start: one due today in the evening (UTC),
\* one due yesterday, one marked completed
StoredItems ==
    {Item(1, 2 * Quarters + 3, FALSE, 0, Undefined, Null),
     Item(2, 1 * Quarters, FALSE, 1, Num(2), Num(1)),
     Item(3, 2 * Quarters, TRUE, 2, Num(4), Num(2))}

NoStats ==
    [totalRevisions |-> 0, completedRevisions |-> 0, upcomingRevisions |-> 0,
     overdueRevisions |-> 0, currentStreak |-> 0]

\* ratings: how many ratings the user gives at most
NoOps ==
    [completes |-> 0, bulks |-> 0, deletes |-> 0, ratings |-> MaxCompletes]

Pending == [served |-> FALSE, data |-> <<>>]

\* the state after the first render and its mount effects, at noon (UTC)
\* of 2020-01-03, for a user at or east of Greenwich, with or without
\* revision items
RevisionInit ==
    /\ clock = 2 * Quarters + 2
    /\ tz \in {0, 1}
    /\ serverItems \in {StoredItems, {}}
    /\ revisionItems = <<>>
    /\ selectedDate = isoDate(clock)
    /\ agenda = <<>>
    /\ stats = NoStats
    /\ completingItems = {}
    /\ showRatingModal = FALSE
    /\ selectedRevisionItem = Null
    /\ loadingRevisionItems = TRUE
    /\ mounted = TRUE
    /\ itemsRequests = One1(Pending)
    /\ completeRequests = EmptyBag
    /\ bulkRequests = EmptyBag
    /\ revNotice = "none"
    /\ bulkOutcome = [kind |-> "none"]
    /\ revOps = NoOps

\* the same state for a user at Greenwich with revision items, who goes
\* on to rate several items
CompletionInit ==
    /\ clock = 2 * Quarters + 2
    /\ tz = 0
    /\ serverItems = StoredItems
    /\ revisionItems = <<>>
    /\ selectedDate = isoDate(clock)
    /\ agenda = <<>>
    /\ stats = NoStats
    /\ completingItems = {}
    /\ showRatingModal = FALSE
    /\ selectedRevisionItem = Null
    /\ loadingRevisionItems = TRUE
    /\ mounted = TRUE
    /\ itemsRequests = One1(Pending)
    /\ completeRequests = EmptyBag
    /\ bulkRequests = EmptyBag
    /\ revNotice = "none"
    /\ bulkOutcome = [kind |-> "none"]
    /\ revOps = [NoOps EXCEPT !.ratings = MaxRatings]

\* the page not under study: never mounted
RevisionIdle ==
    /\ clock = 2 * Quarters + 2
    /\ tz = 0
    /\ serverItems = StoredItems
    /\ revisionItems = <<>>
    /\ selectedDate = isoDate(clock)
    /\ agenda = <<>>
    /\ stats = NoStats
    /\ completingItems = {}
    /\ showRatingModal = FALSE
    /\ selectedRevisionItem = Null
    /\ loadingRevisionItems = FALSE
    /\ mounted = FALSE
    /\ itemsRequests = EmptyBag
    /\ completeRequests = EmptyBag
    /\ bulkRequests = EmptyBag
    /\ revNotice = "none"
    /\ bulkOutcome = [kind |-> "none"]
    /\ revOps = NoOps

\* getItemsForSelectedDate
getItemsForSelectedDate_keepCompleted(items, selected) ==
    LET OnDate(item) == isoDate(item.nextRevisionDate) = selected
    IN SelectSeq(items, OnDate)

getItemsForSelectedDate(items, selected) ==
    LET OnDate(item) ==
            /\ isoDate(item.nextRevisionDate) = selected
            /\ ~item.isCompleted
    IN SelectSeq(items, OnDate)

todayItems == getItemsForSelectedDate(revisionItems, selectedDate)

\* GET .../revision-items is answered with the items stored at that time
getRevisionItemsServed ==
    /\ Pending \in BagToSet(itemsRequests)
    /\ itemsRequests' =
        (itemsRequests (-) One1(Pending))
            (+) One1([served |-> TRUE, data |-> ItemsById(serverItems, 1)])
    /\ UNCHANGED <<clock, tz, serverItems, revisionItems, selectedDate,
                   agenda, stats, completingItems, showRatingModal,
                   selectedRevisionItem, loadingRevisionItems, mounted,
                   completeRequests, bulkRequests, revNotice, bulkOutcome,
                   revOps>>
    /\ UNCHANGED notRevision

\* loadRevisionItems, after the await, response.success
loadRevisionItemsSettled_staleItems(r) ==
    /\ revisionItems' = r.data
    /\ agenda' = getRevisionAgenda(r.data, isoDate(clock),
                                   isoDate(clock + 90 * Quarters), tz)
    /\ stats' = getRevisionStats(revisionItems, clock, tz)
    /\ loadingRevisionItems' = FALSE

loadRevisionItemsSettled(r) ==
    /\ revisionItems' = r.data
    /\ agenda' = getRevisionAgenda(r.data, isoDate(clock),
                                   isoDate(clock + 90 * Quarters), tz)
    /\ stats' = getRevisionStats(r.data, clock, tz)
    /\ loadingRevisionItems' = FALSE

loadRevisionItemsSucceeded ==
    \E r \in BagToSet(itemsRequests) :
        /\ r.served
        /\ itemsRequests' = itemsRequests (-) One1(r)
        /\ loadRevisionItemsSettled(r)
        /\ UNCHANGED <<clock, tz, serverItems, selectedDate, completingItems,
                       showRatingModal, selectedRevisionItem, mounted,
                       completeRequests, bulkRequests, revNotice,
                       bulkOutcome, revOps>>
        /\ UNCHANGED notRevision

\* loadRevisionItems when the request throws, or answers success: false
loadRevisionItemsFailed ==
    \E r \in BagToSet(itemsRequests), thrown \in BOOLEAN :
        /\ itemsRequests' = itemsRequests (-) One1(r)
        /\ revNotice' = IF thrown THEN "error: Loading" ELSE revNotice
        /\ loadingRevisionItems' = FALSE
        /\ UNCHANGED <<clock, tz, serverItems, revisionItems, selectedDate,
                       agenda, stats, completingItems, showRatingModal,
                       selectedRevisionItem, mounted, completeRequests,
                       bulkRequests, bulkOutcome, revOps>>
        /\ UNCHANGED notRevision

\* handleMarkCompleted, from the "Mark Completed" button of a listed item
handleMarkCompleted ==
    \E k \in 1..Len(todayItems) :
        /\ mounted /\ ~loadingRevisionItems /\ ~showRatingModal
        /\ todayItems[k].id \notin completingItems
        /\ selectedRevisionItem' = todayItems[k]
        /\ showRatingModal' = TRUE
        /\ UNCHANGED <<clock, tz, serverItems, revisionItems, selectedDate,
                       agenda, stats, completingItems, loadingRevisionItems,
                       mounted, itemsRequests, completeRequests,
                       bulkRequests, revNotice, bulkOutcome, revOps>>
        /\ UNCHANGED notRevision

\* the Cancel button of the rating modal
CancelRatingModal ==
    /\ mounted /\ showRatingModal /\ selectedRevisionItem # Null
    /\ showRatingModal' = FALSE
    /\ selectedRevisionItem' = Null
    /\ UNCHANGED <<clock, tz, serverItems, revisionItems, selectedDate,
                   agenda, stats, completingItems, loadingRevisionItems,
                   mounted, itemsRequests, completeRequests, bulkRequests,
                   revNotice, bulkOutcome, revOps>>
    /\ UNCHANGED notRevision

\* performanceRating < 1 || performanceRating > 5
ratingOutOfRange(performanceRating) ==
    /\ performanceRating.kind = "number"
    /\ (performanceRating.v < Tenths(1) \/ performanceRating.v > Tenths(5))

\* handleCompleteRevision, called while the rating modal is open
handleCompleteRevision(performanceRating) ==
    IF selectedRevisionItem = Null
       \/ selectedRevisionItem.id \in completingItems
    THEN UNCHANGED <<completingItems, completeRequests, revNotice>>
    ELSE IF ratingOutOfRange(performanceRating)
    THEN /\ revNotice' = "error: Invalid Rating"
         /\ UNCHANGED <<completingItems, completeRequests>>
    ELSE /\ completingItems' = completingItems \cup {selectedRevisionItem.id}
         /\ completeRequests' =
                completeRequests
                    (+) One1([id |-> selectedRevisionItem.id,
                              rating |-> performanceRating])
         /\ UNCHANGED revNotice

CallCompleteRevision ==
    \E performanceRating \in CompletionRatings :
        /\ mounted /\ showRatingModal
        /\ revOps.completes < revOps.ratings
        /\ handleCompleteRevision(performanceRating)
        /\ revOps' = [revOps EXCEPT !.completes =
                        IF completeRequests' = completeRequests
                        THEN @ ELSE @ + 1]
        /\ UNCHANGED <<clock, tz, serverItems, revisionItems, selectedDate,
                       agenda, stats, showRatingModal, selectedRevisionItem,
                       loadingRevisionItems, mounted, itemsRequests,
                       bulkRequests, bulkOutcome>>
        /\ UNCHANGED notRevision

\* completionMutation.onSettled, with the selectedRevisionItem of the
\* latest render (useMutation hands the callbacks of each render to the
\* mutation it started last)
onSettled ==
    completingItems' =
        IF mounted /\ selectedRevisionItem # Null
        THEN completingItems \ {selectedRevisionItem.id}
        ELSE completingItems

\* the backend accepts the completion: onSuccess, then onSettled
completionSucceeded ==
    \E r \in BagToSet(completeRequests),
       draw \in JitterDraws(ServerScheduleSettings) :
        LET done == completeOnServer(serverItems, r.id, r.rating, clock, tz,
                                     draw)
        IN /\ done.ok
           /\ completeRequests' = completeRequests (-) One1(r)
           /\ serverItems' = done.items
           /\ itemsRequests' = itemsRequests (+) One1(Pending)
           /\ loadingRevisionItems' = TRUE
           /\ IF mounted
              THEN /\ showRatingModal' = FALSE
                   /\ selectedRevisionItem' = Null
                   /\ revNotice' = "success: Revision Completed"
              ELSE UNCHANGED <<showRatingModal, selectedRevisionItem,
                               revNotice>>
           /\ onSettled
           /\ UNCHANGED <<clock, tz, revisionItems, selectedDate, agenda,
                          stats, mounted, bulkRequests, bulkOutcome, revOps>>
           /\ UNCHANGED notRevision

\* the backend rejects the completion or the request fails: onError, then
\* onSettled
completionFailed ==
    \E r \in BagToSet(completeRequests) :
        /\ completeRequests' = completeRequests (-) One1(r)
        /\ revNotice' = IF mounted THEN "error: Completing" ELSE revNotice
        /\ onSettled
        /\ UNCHANGED <<clock, tz, serverItems, revisionItems, selectedDate,
                       agenda, stats, showRatingModal, selectedRevisionItem,
                       loadingRevisionItems, mounted, itemsRequests,
                       bulkRequests, bulkOutcome, revOps>>
        /\ UNCHANGED notRevision

\* handleBulkComplete: one request for the whole batch
completionsOf(items) ==
    [k \in 1..Len(items) |->
        [revisionItemId |-> items[k].item.id,
         performanceRating |-> items[k].rating]]

\* the batches it is called with: the loaded items at 5 stars, or with
\* item 1 at 0 stars
Batches ==
    {[k \in 1..Len(revisionItems) |->
        [item |-> revisionItems[k],
         rating |-> IF revisionItems[k].id = bad
                    THEN Num(0) ELSE Num(Tenths(5))]] :
        bad \in {0, 1}} \ {<<>>}

handleBulkComplete(items) ==
    /\ bulkRequests' = bulkRequests (+) One1(completionsOf(items))
    /\ UNCHANGED <<serverItems, loadingRevisionItems, itemsRequests,
                   revNotice, bulkOutcome>>

CallBulkComplete ==
    \E items \in Batches :
        /\ mounted
        /\ revOps.bulks < MaxBulks
        /\ revOps' = [revOps EXCEPT !.bulks = @ + 1]
        /\ handleBulkComplete(items)
        /\ UNCHANGED <<clock, tz, revisionItems, selectedDate, agenda, stats,
                       completingItems, showRatingModal,
                       selectedRevisionItem, mounted, completeRequests>>
        /\ UNCHANGED notRevision

\* the request is answered: the answer is dropped and the items are loaded
\* again
bulkCompleteSucceeded ==
    \E completions \in BagToSet(bulkRequests) :
        LET done == bulkOnServer(serverItems, completions, clock, tz)
        IN /\ bulkRequests' = bulkRequests (-) One1(completions)
           /\ serverItems' = done.items
           /\ itemsRequests' = itemsRequests (+) One1(Pending)
           /\ loadingRevisionItems' = TRUE
           /\ bulkOutcome' = [kind |-> "answered", results |-> done.results,
                              reported |-> <<>>]
           /\ UNCHANGED <<clock, tz, revisionItems, selectedDate, agenda,
                          stats, completingItems, showRatingModal,
                          selectedRevisionItem, mounted, completeRequests,
                          revNotice, revOps>>
           /\ UNCHANGED notRevision

\* the request throws: one error for the batch, nothing is loaded
bulkCompleteFailed ==
    \E completions \in BagToSet(bulkRequests) :
        /\ bulkRequests' = bulkRequests (-) One1(completions)
        /\ revNotice' = "error: Bulk completing"
        /\ bulkOutcome' = [kind |-> "failed", results |-> <<>>,
                           reported |-> <<>>]
        /\ UNCHANGED <<clock, tz, serverItems, revisionItems, selectedDate,
                       agenda, stats, completingItems, showRatingModal,
                       selectedRevisionItem, loadingRevisionItems, mounted,
                       itemsRequests, completeRequests, revOps>>
        /\ UNCHANGED notRevision

\* navigateDate and goToToday
\* Date keeps an instant, here in hours since 2020-01-01T00:00Z; its local
\* fields follow the zone of the browser: `std` hours ahead of UTC, and
\* `dst` hours more from the instant `from` up to the instant `until`
HoursPerDay == 24

Zone(std, dst, from, until) ==
    [std |-> std, dst |-> dst, from |-> from, until |-> until]

\* a zone that never changes its offset
FixedZone(std) == Zone(std, 0, 0, 0)

\* the zones of 2020: UTC, London (summer time from 29 March 01:00Z to
\* 25 October 01:00Z) and New York (from 8 March 07:00Z to 1 November
\* 06:00Z)
Zones ==
    {FixedZone(0),
     Zone(0, 1, 88 * HoursPerDay + 1, 298 * HoursPerDay + 1),
     Zone(0 - 5, 1, 67 * HoursPerDay + 7, 305 * HoursPerDay + 6)}

\* the offset of local time at the instant t
offsetAt(z, t) == z.std + (IF z.from <= t /\ t < z.until THEN z.dst ELSE 0)

\* Date.prototype.getDate and the local time of day, of the instant t
getDate(z, t) == (t + offsetAt(z, t)) \div HoursPerDay
getHours(z, t) == (t + offsetAt(z, t)) % HoursPerDay

\* the instant of the local time `local`: a local time that comes twice or
\* not at all is read with the offset in force before the change
UTC(z, local) ==
    LET early == local - z.std - z.dst
        late == local - z.std
    IN IF early + offsetAt(z, early) = local
       THEN IF late + offsetAt(z, late) = local /\ z.dst < 0
            THEN late ELSE early
       ELSE IF late + offsetAt(z, late) = local THEN late
       ELSE IF z.dst > 0 THEN late ELSE early

\* Date.prototype.setDate: the local day is replaced, the local time of
\* day kept
setDate(z, t, date) == UTC(z, date * HoursPerDay + getHours(z, t))

\* new Date('YYYY-MM-DD'): midnight UTC of the day
DateOf(day) == day * HoursPerDay

\* toISOString().split('T')[0] of an instant in hours
isoDateOf(t) == t \div HoursPerDay

ZoneIdle == zone = FixedZone(0)

minDate == 0

maxDate == isoDate(clock + 365 * Quarters)

\* navigateDate: the date of the day before or after selectedDate
newDateString(direction) ==
    LET currentDate == DateOf(selectedDate)
        newDate ==
            IF direction = "prev"
            THEN setDate(zone, currentDate, getDate(zone, currentDate) - 1)
            ELSE setDate(zone, currentDate, getDate(zone, currentDate) + 1)
    IN isoDateOf(newDate)

navigateDate(direction) ==
    selectedDate' =
        IF /\ newDateString(direction) >= minDate
           /\ newDateString(direction) <= maxDate
        THEN newDateString(direction) ELSE selectedDate

goToToday == selectedDate' = isoDate(clock)

\* the user stays within MaxNavs days of today
Navigate ==
    /\ mounted
    /\ \/ navigateDate("prev")
       \/ navigateDate("next")
       \/ goToToday
    /\ selectedDate' \in (isoDate(clock) - MaxNavs)..(isoDate(clock) + MaxNavs)
    /\ UNCHANGED <<clock, tz, serverItems, revisionItems, agenda, stats,
                   completingItems, showRatingModal, selectedRevisionItem,
                   loadingRevisionItems, mounted, itemsRequests,
                   completeRequests, bulkRequests, revNotice, bulkOutcome,
                   revOps>>
    /\ UNCHANGED notRevision

\* the effect cleanup
Unmount ==
    /\ mounted
    /\ mounted' = FALSE
    /\ UNCHANGED <<clock, tz, serverItems, revisionItems, selectedDate,
                   agenda, stats, completingItems, showRatingModal,
                   selectedRevisionItem, loadingRevisionItems,
                   itemsRequests, completeRequests, bulkRequests, revNotice,
                   bulkOutcome, revOps>>
    /\ UNCHANGED notRevision

\* the artifact of an item is deleted elsewhere: the item leaves the store
DeleteArtifact ==
    \E i \in serverItems :
        /\ i.id = 2
        /\ revOps.deletes < MaxDeletes
        /\ revOps' = [revOps EXCEPT !.deletes = @ + 1]
        /\ serverItems' = serverItems \ {i}
        /\ UNCHANGED <<clock, tz, revisionItems, selectedDate, agenda, stats,
                       completingItems, showRatingModal,
                       selectedRevisionItem, loadingRevisionItems, mounted,
                       itemsRequests, completeRequests, bulkRequests,
                       revNotice, bulkOutcome>>
        /\ UNCHANGED notRevision

---------------------------------------------------------------------------
(* Claims about bulk completion, checked under SpecBulk *)

SomeFailed(results) == \E k \in 1..Len(results) : ~results[k].ok

\* C11: a bulk completion applies each item's update independently and
\* reports a result per item: when the answer to a batch says that some
\* items failed, the page reports every item of the batch with its own
\* result, the failing ones individually.
C11_PerItemReport ==
    (bulkOutcome.kind = "answered" /\ SomeFailed(bulkOutcome.results))
        => bulkOutcome.reported = bulkOutcome.results

---------------------------------------------------------------------------
(* Claims about the interval scheduler, checked under SpecSchedule *)

Ret(r) == schedOut[r].ret

\* C12: for every rating in 1..5, every cycle count, every prior stability
\* and every valid settings, jitter included, the interval between today
\* and the nextDueDate that schedule returns never exceeds sMax days.
C12_IntervalWithinSMax ==
    \A r \in ScheduleRatings :
        Scheduled(r) =>
            Ret(r).nextDueDate - schedIn.today <= schedIn.settings.sMax

---------------------------------------------------------------------------
(* The graph propagation engine, section 4.4 of the design.  postReview    *)
(* hands a review to the backend; the traversal itself is not part of the  *)
(* sources at hand and follows the design: an iterative breadth-first      *)
(* traversal with a frontier of (node, hop) and the level each node was    *)
(* reached at.  Deltas are strengths in fixed point, weights are tenths.   *)

PropNodes == 1..4

Edge(id, source, target, weight) ==
    [id |-> id, sourceNodeId |-> source, targetNodeId |-> target,
     weight |-> weight]

MaxDepth == 3

\* a chain, a chain against the arrows, a triangle, a chain with a parallel
\* edge, a chain with self-loops, a cycle of two with a tail, a diamond
PropGraphs ==
    {{Edge(1, 1, 2, 10), Edge(2, 2, 3, 10)},
     {Edge(1, 2, 1, 5), Edge(2, 3, 2, 10)},
     {Edge(1, 1, 2, 10), Edge(2, 2, 3, 10), Edge(3, 3, 1, 5)},
     {Edge(1, 1, 2, 10), Edge(2, 1, 2, 5), Edge(3, 2, 3, 10)},
     {Edge(1, 1, 1, 10), Edge(2, 1, 2, 10), Edge(3, 2, 2, 10)},
     {Edge(1, 1, 2, 10), Edge(2, 2, 1, 10), Edge(3, 2, 3, 5)},
     {Edge(1, 1, 2, 10), Edge(2, 1, 3, 10), Edge(3, 2, 4, 10),
      Edge(4, 3, 4, 5)}}

\* decay(d): halving per hop
RECURSIVE decay(_, _)
decay(x, d) == IF d <= 0 THEN x ELSE decay(x \div 2, d - 1)

\* the edges that leave a node in either direction, self-loops excluded
incident_withLoops(edges, u) ==
    {e \in edges : e.sourceNodeId = u \/ e.targetNodeId = u}

incident(edges, u) ==
    {e \in edges : /\ e.sourceNodeId # e.targetNodeId
                   /\ (e.sourceNodeId = u \/ e.targetNodeId = u)}

otherEnd(e, u) == IF e.sourceNodeId = u THEN e.targetNodeId ELSE e.sourceNodeId

\* a node takes part at hop d if it was not reached at a smaller hop
reachableAt_noVisited(level, v, d) == TRUE

reachableAt(level, v, d) == level[v] = -1 \/ level[v] = d

\* a node joins the frontier when it is reached for the first time
isFresh_always(level, v, d) == TRUE

isFresh(level, v, d) == level[v] # d

\* whether a node at hop d is expanded
withinDepth_inclusive(d, depth) == d <= depth

withinDepth(d, depth) == d < depth

\* the sum of the contributions of a set of edges into v at hop d
RECURSIVE contribution(_, _, _)
contribution(es, ratingDelta, d) ==
    IF es = {} THEN 0
    ELSE LET e == CHOOSE x \in es : TRUE
         IN decay((ratingDelta * e.weight) \div 10, d)
            + contribution(es \ {e}, ratingDelta, d)

PropagateInputs ==
    /\ propIn \in {[edges |-> g, reviewedNodeId |-> a, ratingDelta |-> rd,
                    depth |-> dp] :
                      g \in PropGraphs, a \in PropNodes,
                      rd \in {Pct(20), -Pct(20)}, dp \in -1..MaxDepth}
    /\ propQueue = <<>>
    /\ propLevel = [v \in PropNodes |-> -1]
    /\ propDeltas = [v \in PropNodes |-> 0]
    /\ propExpanded = <<>>
    /\ propTraversed = {}
    /\ propStrength = [v \in PropNodes |-> Half]
    /\ propDone = "no"

PropagateIdle ==
    /\ propIn = [edges |-> {}, reviewedNodeId |-> 1, ratingDelta |-> 0,
                 depth |-> 0]
    /\ propQueue = <<>>
    /\ propLevel = [v \in PropNodes |-> -1]
    /\ propDeltas = [v \in PropNodes |-> 0]
    /\ propExpanded = <<>>
    /\ propTraversed = {}
    /\ propStrength = [v \in PropNodes |-> Half]
    /\ propDone = "idle"

\* propagate is entered: the reviewed node gets its own delta
PropagateStart ==
    /\ propDone = "no" /\ propLevel[propIn.reviewedNodeId] = -1
    /\ propLevel' = [propLevel EXCEPT ![propIn.reviewedNodeId] = 0]
    /\ propDeltas' = [propDeltas EXCEPT ![propIn.reviewedNodeId] =
                        propIn.ratingDelta]
    /\ propQueue' = <<[node |-> propIn.reviewedNodeId, hop |-> 0]>>
    /\ UNCHANGED <<propIn, propExpanded, propTraversed, propStrength,
                   propDone>>
    /\ UNCHANGED notPropagate

\* one turn of the loop: the head of the frontier is expanded
PropagateStep ==
    /\ propDone = "no" /\ propQueue # <<>>
    /\ LET u == Head(propQueue).node
           d == Head(propQueue).hop
           out == IF withinDepth(d, propIn.depth)
                  THEN {e \in incident(propIn.edges, u) :
                            reachableAt(propLevel, otherEnd(e, u), d + 1)}
                  ELSE {}
           into(v) == {e \in out : otherEnd(e, u) = v}
           fresh == {v \in PropNodes :
                        into(v) # {} /\ isFresh(propLevel, v, d + 1)}
           RECURSIVE enqueue(_)
           enqueue(vs) ==
               IF vs = {} THEN <<>>
               ELSE LET v == CHOOSE x \in vs : \A y \in vs : x <= y
                    IN <<[node |-> v, hop |-> d + 1]>> \o enqueue(vs \ {v})
       IN /\ propDeltas' =
                [v \in PropNodes |->
                    propDeltas[v]
                        + contribution(into(v), propIn.ratingDelta, d + 1)]
          /\ propLevel' =
                [v \in PropNodes |->
                    IF into(v) # {} THEN d + 1 ELSE propLevel[v]]
          /\ propQueue' = Tail(propQueue) \o enqueue(fresh)
          /\ propExpanded' = Append(propExpanded, [node |-> u, hop |-> d])
          /\ propTraversed' = propTraversed \cup {e.id : e \in out}
    /\ UNCHANGED <<propIn, propStrength, propDone>>
    /\ UNCHANGED notPropagate

\* the frontier is empty: every node's new strength is
\* normalize(oldStrength + totalDelta)
PropagateReturn ==
    /\ propDone = "no" /\ propQueue = <<>>
    /\ propLevel[propIn.reviewedNodeId] = 0
    /\ propStrength' =
        [v \in PropNodes |->
            IF propDeltas[v] = 0 THEN propStrength[v]
            ELSE normalizeStrength(propStrength[v] + propDeltas[v])]
    /\ propDone' = "yes"
    /\ UNCHANGED <<propIn, propQueue, propLevel, propDeltas, propExpanded,
                   propTraversed>>
    /\ UNCHANGED notPropagate

---------------------------------------------------------------------------
(* Claims about the propagation engine, checked under SpecPropagate *)

Adjacent(edges, u, v) ==
    u # v /\ \E e \in edges :
                {e.sourceNodeId, e.targetNodeId} = {u, v}

\* the nodes within k hops of a
RECURSIVE Within(_, _, _)
Within(edges, a, k) ==
    IF k <= 0 THEN {a}
    ELSE LET near == Within(edges, a, k - 1)
         IN near \cup {v \in PropNodes : \E u \in near : Adjacent(edges, u, v)}

\* C14: propagation changes the strength of no node whose hop distance from
\* the reviewed node exceeds the depth; with a depth of 0 or less only the
\* reviewed node has a delta.
C14_DepthFrame ==
    \A v \in PropNodes :
        v \notin Within(propIn.edges, propIn.reviewedNodeId, propIn.depth)
            => propDeltas[v] = 0 /\ propStrength[v] = Half

\* the chain 1-2-3 with depth 1, node 1 reviewed: 2 has changed, 3 has not
C14_Witness ==
    /\ propDone = "yes"
    /\ propIn.edges = {Edge(1, 1, 2, 10), Edge(2, 2, 3, 10)}
    /\ propIn.reviewedNodeId = 1 /\ propIn.depth = 1
    /\ propStrength[2] # Half /\ propStrength[3] = Half

ExpandedOnce ==
    \A i, j \in 1..Len(propExpanded) :
        i < j => propExpanded[i] # propExpanded[j]

NoSelfLoopTraversed ==
    \A e \in propIn.edges :
        e.id \in propTraversed => e.sourceNodeId # e.targetNodeId

\* C15: over any graph, with cycles, parallel edges and self-loops, the
\* propagation terminates, no node is expanded twice at the same hop
\* distance, and no self-loop is followed.
C15_Terminates ==
    /\ <>(propDone = "yes")
    /\ [](ExpandedOnce /\ NoSelfLoopTraversed)

\* the traversal of the triangle (a cycle) returned with a depth that would
\* lead around it, every node expanded once
C15_Witness ==
    /\ propDone = "yes"
    /\ propIn.depth >= 3
    /\ propIn.edges = {Edge(1, 1, 2, 10), Edge(2, 2, 3, 10), Edge(3, 3, 1, 5)}
    /\ Len(propExpanded) = 3

---------------------------------------------------------------------------
(* Claims about the revision page, checked under SpecRevision *)

Indices(Keep(_)) == {k \in 1..Len(revisionItems) : Keep(revisionItems[k])}

DueOn(item) == localDate(item.nextRevisionDate, tz)

Today == localDate(clock, tz)

C18_ListedOnLocalDate ==
    /\ \A k \in 1..Len(revisionItems) :
          LET item == revisionItems[k]
          IN item \in SeqRange(todayItems)
                <=> (~item.isCompleted /\ DueOn(item) = selectedDate)
    /\ \A k \in 1..Len(agenda) :
          agenda[k].date = selectedDate
              => agenda[k].totalItems = Len(todayItems)

---------------------------------------------------------------------------
(* hooks/useGraphData: the graph of the viewer and its edits.  The hook    *)
(* keeps the graph it fetched and edits it in place.  The backend is       *)
(* reached through ApiClient and is not part of the sources at hand: it    *)
(* stores the graph, hands out the ids, refuses an edge between nodes it   *)
(* does not store and deletes the edges of a deleted node (design section  *)
(* 3).  Whether it refuses an edge from a node to itself is not known and  *)
(* is left open (refusesLoops).  Weights are tenths.                       *)

MaxNodeCreates == 1
MaxConnects == 1
MaxNodeDeletes == 1
MaxEdgeDeletes == 1
MaxThrown == 1
MaxUpdates == 1

\* a node as the backend creates it: positions are whole numbers
GraphNode(id) == [id |-> id, title |-> "node", position |-> 0]

HasNode(nodes, id) == \E n \in nodes : n.id = id

GraphEdge(id, source, target, type, weight) ==
    [id |-> id, sourceNodeId |-> source, targetNodeId |-> target,
     relationshipType |-> type, weight |-> weight]

\* UpdateNodeData: the keys that are not sent are undefined
NodeData(title, position) == [title |-> title, position |-> position]

NoNodeData == NodeData(Undefined, Undefined)

\* {...node, ...nodeData}
MergeNode(n, nodeData) ==
    [n EXCEPT
        !.title = IF nodeData.title.kind = "undefined" THEN @
                  ELSE nodeData.title.v,
        !.position = IF nodeData.position.kind = "undefined" THEN @
                     ELSE nodeData.position.v]

\* the records of a store in the order the backend lists them (by id)
RECURSIVE ListById(_, _)
ListById(records, from) ==
    IF records = {} THEN <<>>
    ELSE IF \E r \in records : r.id = from
         THEN LET r == CHOOSE x \in records : x.id = from
              IN <<r>> \o ListById(records \ {r}, from + 1)
         ELSE ListById(records, from + 1)

NodeIdsOf(data) == {data.nodes[k].id : k \in 1..Len(data.nodes)}

\* ---- the backend (design sections 3 and 6)

StoredGraph ==
    [nodes |-> {GraphNode(1), GraphNode(2)},
     edges |-> {GraphEdge(1, 1, 2, "related", 10)},
     nextNode |-> 3, nextEdge |-> 2, refusesLoops |-> FALSE]

NoData == [nodes |-> <<>>, edges |-> <<>>]

Answer(store, ok, data) == [store |-> store, ok |-> ok, data |-> data]

getGraphOnServer(store) ==
    Answer(store, TRUE, [nodes |-> ListById(store.nodes, 1),
                         edges |-> ListById(store.edges, 1)])

createNodeOnServer(store) ==
    LET n == GraphNode(store.nextNode)
    IN Answer([store EXCEPT !.nodes = @ \cup {n}, !.nextNode = @ + 1],
              TRUE, [NoData EXCEPT !.nodes = <<n>>])

createEdgeOnServer(store, edgeData) ==
    LET e == GraphEdge(store.nextEdge, edgeData.sourceNodeId,
                       edgeData.targetNodeId, edgeData.relationshipType,
                       edgeData.weight)
    IN IF /\ HasNode(store.nodes, edgeData.sourceNodeId)
          /\ HasNode(store.nodes, edgeData.targetNodeId)
          /\ ~(/\ store.refusesLoops
               /\ edgeData.sourceNodeId = edgeData.targetNodeId)
       THEN Answer([store EXCEPT !.edges = @ \cup {e}, !.nextEdge = @ + 1],
                   TRUE, [NoData EXCEPT !.edges = <<e>>])
       ELSE Answer(store, FALSE, NoData)

updateNodeOnServer(store, nodeId, nodeData) ==
    IF HasNode(store.nodes, nodeId)
    THEN Answer([store EXCEPT
                    !.nodes = {IF n.id = nodeId THEN MergeNode(n, nodeData)
                               ELSE n : n \in @}],
                TRUE, NoData)
    ELSE Answer(store, FALSE, NoData)

deleteNodeOnServer(store, nodeId) ==
    IF HasNode(store.nodes, nodeId)
    THEN Answer([store EXCEPT
                    !.nodes = {n \in @ : n.id # nodeId},
                    !.edges = {e \in @ : /\ e.sourceNodeId # nodeId
                                         /\ e.targetNodeId # nodeId}],
                TRUE, NoData)
    ELSE Answer(store, FALSE, NoData)

deleteEdgeOnServer(store, edgeId) ==
    IF \E e \in store.edges : e.id = edgeId
    THEN Answer([store EXCEPT !.edges = {e \in @ : e.id # edgeId}],
                TRUE, NoData)
    ELSE Answer(store, FALSE, NoData)

\* ---- ApiClient: a request of the hook; edgeData is what createEdge sends,
\* id the node or edge to delete or update, parent the node "Add child" was
\* asked for, nodeData what updateNode sends.  A getGraph request carries
\* the order in which it was issued (seq) and the handler call that awaits
\* it to return (awaitedBy).

NoEdgeData ==
    [sourceNodeId |-> 0, targetNodeId |-> 0, relationshipType |-> "",
     weight |-> 0]

Caller(op, id) == [op |-> op, id |-> id]

NoCaller == Caller("", 0)

GraphCall(op, id, edgeData, parent, nodeData) ==
    [op |-> op, id |-> id, edgeData |-> edgeData, parent |-> parent,
     nodeData |-> nodeData, seq |-> 0, awaitedBy |-> NoCaller,
     served |-> FALSE, ok |-> FALSE, data |-> NoData]

GetGraph(seq, caller) ==
    [GraphCall("getGraph", 0, NoEdgeData, 0, NoNodeData)
        EXCEPT !.seq = seq, !.awaitedBy = caller]

NoGraphOps ==
    [nodeCreates |-> 0, connects |-> 0, nodeDeletes |-> 0,
     edgeDeletes |-> 0, updates |-> 0, thrown |-> 0, fetches |-> 0]

\* what a call of a handler returned
Returned(caller, value) ==
    [op |-> caller.op, id |-> caller.id, value |-> value]

\* the handler call awaiting a fetch returns once the fetch has settled
ReturnsAfter(c, value) ==
    IF c.awaitedBy = NoCaller THEN graphResults
    ELSE graphResults \cup {Returned(c.awaitedBy, value)}

\* the state after the first render of the viewer: useEffect has called
\* fetchGraphData, which is waiting for the backend
GraphInit ==
    /\ graphData = Null
    /\ dataLoading = TRUE
    /\ dataError = Null
    /\ backendGraph \in {[StoredGraph EXCEPT !.refusesLoops = b] :
                            b \in BOOLEAN}
    /\ graphCalls = One1(GetGraph(1, NoCaller))
    /\ graphOps = [NoGraphOps EXCEPT !.fetches = 1]
    /\ graphResults = {}
    /\ dataFrom = 0

\* the viewer not under study: never opened
GraphIdle ==
    /\ graphData = Null
    /\ dataLoading = FALSE
    /\ dataError = Null
    /\ backendGraph = StoredGraph
    /\ graphCalls = EmptyBag
    /\ graphOps = NoGraphOps
    /\ graphResults = {}
    /\ dataFrom = 0

\* ---- updateNodePosition: the timers it sets and the promises it returns.
\* Every timer has the same delay (500 ms), so timers run out in the order
\* they were set; a call belongs to the burst of the previous call for the
\* same node when that call's 500 ms have not run out yet.

MaxPositionCalls == 3

PositionNodes == 1..2

\* everything but the hook
notViewer ==
    <<strengthVars, queueVars, settingsVars, scheduleVars, revisionVars,
      propagateVars, wizardVars, zoneVars>>

PositionInit ==
    /\ positionUpdateTimeoutRef = [n \in PositionNodes |-> 0]
    /\ positionCalls = <<>>

PositionIdle == PositionInit

\* resolve(value), then finally: positionUpdateTimeoutRef.current.delete
settlePosition(k, value) ==
    /\ positionCalls' = [positionCalls EXCEPT ![k].promise = value]
    /\ positionUpdateTimeoutRef' =
          [positionUpdateTimeoutRef EXCEPT ![positionCalls[k].nodeId] = 0]

\* what the caller awaiting a fetch does once the fetch has settled
afterFetch(c) ==
    IF c.awaitedBy.op = "updateNodePosition"
    THEN settlePosition(c.awaitedBy.id, "false")
    ELSE UNCHANGED positionVars

answerOf(store, c) ==
    CASE c.op = "getGraph" -> getGraphOnServer(store)
      [] c.op = "createNode" -> createNodeOnServer(store)
      [] c.op = "createEdge" -> createEdgeOnServer(store, c.edgeData)
      [] c.op = "updateNode" -> updateNodeOnServer(store, c.id, c.nodeData)
      [] c.op = "deleteNode" -> deleteNodeOnServer(store, c.id)
      [] c.op = "deleteEdge" -> deleteEdgeOnServer(store, c.id)

\* the backend handles one request and its answer sets off
backendAnswers ==
    \E c \in BagToSet(graphCalls) :
        /\ ~c.served
        /\ LET a == answerOf(backendGraph, c)
           IN /\ backendGraph' = a.store
              /\ graphCalls' =
                    (graphCalls (-) One1(c))
                        (+) One1([c EXCEPT !.served = TRUE, !.ok = a.ok,
                                           !.data = a.data])
        /\ UNCHANGED <<graphData, dataLoading, dataError, graphOps,
                       graphResults, dataFrom>>
        /\ UNCHANGED notGraph

\* a request is lost or its answer is: ApiClient.request throws
Throws(ops) == [ops EXCEPT !.thrown = @ + 1]

\* fetchGraphData up to the await, as the handler call `caller` awaits it
\* to revert its optimistic update
fetchGraphData(calls, ops, caller) ==
    /\ dataLoading' = TRUE
    /\ dataError' = Null
    /\ graphOps' = [ops EXCEPT !.fetches = @ + 1]
    /\ graphCalls' = calls (+) One1(GetGraph(ops.fetches + 1, caller))

\* fetchGraphData after the await, response.success; the handler that
\* awaited it returns false (null for createNode and createEdge)
fetchGraphDataSucceeded ==
    \E c \in BagToSet(graphCalls) :
        /\ c.op = "getGraph" /\ c.served /\ c.ok
        /\ graphCalls' = graphCalls (-) One1(c)
        /\ graphData' = c.data
        /\ dataFrom' = c.seq
        /\ dataLoading' = FALSE
        /\ graphResults' = ReturnsAfter(c, "false")
        /\ UNCHANGED <<dataError, backendGraph, graphOps>>
        /\ afterFetch(c)
        /\ UNCHANGED notViewer

\* fetchGraphData when the request throws
fetchGraphDataFailed ==
    \E c \in BagToSet(graphCalls) :
        /\ c.op = "getGraph"
        /\ graphOps.thrown < MaxThrown
        /\ graphOps' = Throws(graphOps)
        /\ graphCalls' = graphCalls (-) One1(c)
        /\ dataError' = Str("Unknown error")
        /\ dataLoading' = FALSE
        /\ graphResults' = ReturnsAfter(c, "false")
        /\ UNCHANGED <<graphData, backendGraph, dataFrom>>
        /\ afterFetch(c)
        /\ UNCHANGED notViewer

\* createNode up to the await, from handleNodeCreate (toolbar, parent = 0)
\* or from handleAddChildNode (node panel, the parent is on screen)
createNode(parent) ==
    /\ graphData # Null
    /\ graphOps.nodeCreates < MaxNodeCreates
    /\ parent = 0 \/ parent \in NodeIdsOf(graphData)
    /\ graphOps' = [graphOps EXCEPT !.nodeCreates = @ + 1]
    /\ graphCalls' = graphCalls (+) One1(GraphCall("createNode", 0,
                                                   NoEdgeData, parent,
                                                   NoNodeData))
    /\ UNCHANGED <<graphData, dataLoading, dataError, backendGraph,
                   graphResults, dataFrom>>
    /\ UNCHANGED notGraph

CallCreateNode == \E parent \in 0..2 : createNode(parent)

\* createEdge up to the await
createEdge(calls, edgeData) ==
    calls (+) One1(GraphCall("createEdge", 0, edgeData, 0, NoNodeData))

\* createNode after the await, response.success; handleAddChildNode then
\* connects the parent to the child
createNodeSucceeded ==
    \E c \in BagToSet(graphCalls) :
        /\ c.op = "createNode" /\ c.served /\ c.ok
        /\ graphData' =
              IF graphData # Null
              THEN [graphData EXCEPT !.nodes = @ \o c.data.nodes]
              ELSE Null
        /\ graphCalls' =
              IF c.parent # 0
              THEN createEdge(graphCalls (-) One1(c),
                              [sourceNodeId |-> c.parent,
                               targetNodeId |-> c.data.nodes[1].id,
                               relationshipType |-> "parent_child",
                               weight |-> 10])
              ELSE graphCalls (-) One1(c)
        /\ UNCHANGED <<dataLoading, dataError, backendGraph, graphOps,
                       graphResults, dataFrom>>
        /\ UNCHANGED notGraph

\* createNode when the request throws: the catch fetches the graph again
createNodeFailed ==
    \E c \in BagToSet(graphCalls) :
        /\ c.op = "createNode"
        /\ graphOps.thrown < MaxThrown
        /\ fetchGraphData(graphCalls (-) One1(c), Throws(graphOps), NoCaller)
        /\ UNCHANGED <<graphData, backendGraph, graphResults, dataFrom>>
        /\ UNCHANGED notGraph

\* onConnect: a connection drawn from the source handle of one node on
\* screen to the target handle of a node on screen
onConnect(source, target) ==
    /\ graphData # Null
    /\ graphOps.connects < MaxConnects
    /\ source \in NodeIdsOf(graphData)
    /\ target \in NodeIdsOf(graphData)
    /\ graphOps' = [graphOps EXCEPT !.connects = @ + 1]
    /\ graphCalls' = createEdge(graphCalls,
                                [sourceNodeId |-> source,
                                 targetNodeId |-> target,
                                 relationshipType |-> "related",
                                 weight |-> 10])
    /\ UNCHANGED <<graphData, dataLoading, dataError, backendGraph,
                   graphResults, dataFrom>>
    /\ UNCHANGED notGraph

CallOnConnect == \E source \in 1..3, target \in 1..3 : onConnect(source, target)

\* createEdge after the await, response.success
createEdgeSucceeded ==
    \E c \in BagToSet(graphCalls) :
        /\ c.op = "createEdge" /\ c.served /\ c.ok
        /\ graphCalls' = graphCalls (-) One1(c)
        /\ graphData' =
              IF graphData # Null
              THEN [graphData EXCEPT !.edges = @ \o c.data.edges]
              ELSE Null
        /\ UNCHANGED <<dataLoading, dataError, backendGraph, graphOps,
                       graphResults, dataFrom>>
        /\ UNCHANGED notGraph

\* createEdge answered with success: false returns null; when the request
\* throws, the catch fetches the graph again
createEdgeFailed ==
    \E c \in BagToSet(graphCalls) :
        /\ c.op = "createEdge"
        /\ \/ /\ c.served /\ ~c.ok
              /\ graphCalls' = graphCalls (-) One1(c)
              /\ UNCHANGED <<dataLoading, dataError, graphOps>>
           \/ /\ graphOps.thrown < MaxThrown
              /\ fetchGraphData(graphCalls (-) One1(c), Throws(graphOps),
                                NoCaller)
        /\ UNCHANGED <<graphData, backendGraph, graphResults, dataFrom>>
        /\ UNCHANGED notGraph

\* updateNode up to the await, from handleNodeUpdate (node panel) or
\* onNodeDragStop for a node on screen
updateNode(nodeId, nodeData) ==
    /\ graphData # Null
    /\ graphOps.updates < MaxUpdates
    /\ nodeId \in NodeIdsOf(graphData)
    /\ graphOps' = [graphOps EXCEPT !.updates = @ + 1]
    /\ graphData' =
          [graphData EXCEPT
              !.nodes = [k \in DOMAIN @ |->
                            IF @[k].id = nodeId
                            THEN MergeNode(@[k], nodeData) ELSE @[k]]]
    /\ graphCalls' = graphCalls (+) One1(GraphCall("updateNode", nodeId,
                                                   NoEdgeData, 0, nodeData))
    /\ UNCHANGED <<dataLoading, dataError, backendGraph, graphResults,
                   dataFrom>>
    /\ UNCHANGED notGraph

NodeUpdates ==
    {NodeData(Str("renamed"), Undefined), NodeData(Undefined, Num(1))}

CallUpdateNode ==
    \E nodeId \in 1..2, nodeData \in NodeUpdates : updateNode(nodeId, nodeData)

\* deleteNode up to the await, from handleNodeDelete for a node on screen
deleteNode(nodeId) ==
    /\ graphData # Null
    /\ graphOps.nodeDeletes < MaxNodeDeletes
    /\ nodeId \in NodeIdsOf(graphData)
    /\ graphOps' = [graphOps EXCEPT !.nodeDeletes = @ + 1]
    /\ graphData' =
          [graphData EXCEPT
              !.nodes = SelectSeq(@, LAMBDA n : n.id # nodeId),
              !.edges = SelectSeq(@, LAMBDA edge :
                                        /\ edge.sourceNodeId # nodeId
                                        /\ edge.targetNodeId # nodeId)]
    /\ graphCalls' = graphCalls (+) One1(GraphCall("deleteNode", nodeId,
                                                   NoEdgeData, 0,
                                                   NoNodeData))
    /\ UNCHANGED <<dataLoading, dataError, backendGraph, graphResults,
                   dataFrom>>
    /\ UNCHANGED notGraph

CallDeleteNode == \E nodeId \in 1..3 : deleteNode(nodeId)

\* deleteEdge up to the await, from onEdgeClick for an edge on screen
deleteEdge(edgeId) ==
    /\ graphData # Null
    /\ graphOps.edgeDeletes < MaxEdgeDeletes
    /\ \E k \in 1..Len(graphData.edges) : graphData.edges[k].id = edgeId
    /\ graphOps' = [graphOps EXCEPT !.edgeDeletes = @ + 1]
    /\ graphData' =
          [graphData EXCEPT
              !.edges = SelectSeq(@, LAMBDA edge : edge.id # edgeId)]
    /\ graphCalls' = graphCalls (+) One1(GraphCall("deleteEdge", edgeId,
                                                   NoEdgeData, 0,
                                                   NoNodeData))
    /\ UNCHANGED <<dataLoading, dataError, backendGraph, graphResults,
                   dataFrom>>
    /\ UNCHANGED notGraph

CallDeleteEdge == \E edgeId \in 1..3 : deleteEdge(edgeId)

Optimistic == {"updateNode", "deleteNode", "deleteEdge"}

\* updateNode, deleteNode and deleteEdge after the await, response.success:
\* the handler returns true
optimisticSucceeded ==
    \E c \in BagToSet(graphCalls) :
        /\ c.op \in Optimistic /\ c.awaitedBy = NoCaller
        /\ c.served /\ c.ok
        /\ graphCalls' = graphCalls (-) One1(c)
        /\ graphResults' =
              graphResults \cup {Returned(Caller(c.op, c.id), "true")}
        /\ UNCHANGED <<graphData, dataLoading, dataError, backendGraph,
                       graphOps, dataFrom>>
        /\ UNCHANGED notGraph

\* updateNode, deleteNode and deleteEdge answered with success: false, or
\* when the request throws: the graph is fetched again, then the handler
\* returns false
optimisticFailed ==
    \E c \in BagToSet(graphCalls) :
        /\ c.op \in Optimistic /\ c.awaitedBy = NoCaller
        /\ \/ /\ c.served /\ ~c.ok
              /\ fetchGraphData(graphCalls (-) One1(c), graphOps,
                                Caller(c.op, c.id))
           \/ /\ graphOps.thrown < MaxThrown
              /\ fetchGraphData(graphCalls (-) One1(c), Throws(graphOps),
                                Caller(c.op, c.id))
        /\ UNCHANGED <<graphData, backendGraph, graphResults, dataFrom>>
        /\ UNCHANGED notGraph

\* ---- updateNodePosition

LastCallFor(nodeId) ==
    LET ks == {k \in DOMAIN positionCalls : positionCalls[k].nodeId = nodeId}
    IN IF ks = {} THEN 0 ELSE CHOOSE k \in ks : \A j \in ks : j <= k

\* the burst of a new call for the node: that of the previous call while
\* its 500 ms are running, a new one otherwise
BurstFor(nodeId) ==
    LET last == LastCallFor(nodeId)
    IN IF last = 0 THEN 1
       ELSE IF positionCalls[last].timer = "fired"
            THEN positionCalls[last].burst + 1
            ELSE positionCalls[last].burst

\* clearTimeout(existingTimeout)
clearTimeout(calls, timerId, by) ==
    [k \in DOMAIN calls |->
        IF k = timerId /\ calls[k].timer = "scheduled"
        THEN [calls[k] EXCEPT !.timer = "cleared", !.clearedBy = by]
        ELSE calls[k]]

\* updateNodePosition, the whole call: the timer of the node is cleared, the
\* position is set in the local graph, a timer is set and kept in the map
updateNodePosition(nodeId, position) ==
    LET existingTimeout == positionUpdateTimeoutRef[nodeId]
        id == Len(positionCalls) + 1
    IN  /\ graphData # Null
        /\ Len(positionCalls) < MaxPositionCalls
        /\ nodeId \in NodeIdsOf(graphData)
        /\ graphData' =
              [graphData EXCEPT
                  !.nodes = [k \in DOMAIN @ |->
                                IF @[k].id = nodeId
                                THEN [@[k] EXCEPT !.position = position]
                                ELSE @[k]]]
        /\ positionCalls' =
              Append(clearTimeout(positionCalls, existingTimeout, id),
                     [nodeId |-> nodeId, position |-> position,
                      timer |-> "scheduled", clearedBy |-> 0,
                      promise |-> "pending", burst |-> BurstFor(nodeId)])
        /\ positionUpdateTimeoutRef' =
              [positionUpdateTimeoutRef EXCEPT ![nodeId] = id]
        /\ UNCHANGED <<dataLoading, dataError, backendGraph, graphCalls,
                       graphOps, graphResults, dataFrom>>
        /\ UNCHANGED notViewer

CallUpdateNodePosition ==
    \E nodeId \in PositionNodes, position \in 1..2 :
        updateNodePosition(nodeId, position)

\* the 500 ms of a timer have run out: its callback sends the position
timeoutFires ==
    \E k \in DOMAIN positionCalls :
        /\ positionCalls[k].timer = "scheduled"
        /\ \A j \in 1..(k - 1) : positionCalls[j].timer # "scheduled"
        /\ positionCalls' = [positionCalls EXCEPT ![k].timer = "fired"]
        /\ graphCalls' =
              graphCalls (+) One1(
                  [GraphCall("updateNode", positionCalls[k].nodeId,
                             NoEdgeData, 0,
                             NodeData(Undefined,
                                      Num(positionCalls[k].position)))
                      EXCEPT !.awaitedBy = Caller("updateNodePosition", k)])
        /\ UNCHANGED <<graphData, dataLoading, dataError, backendGraph,
                       graphOps, graphResults, dataFrom,
                       positionUpdateTimeoutRef>>
        /\ UNCHANGED notViewer

\* the callback after the await, response.success: resolve(true), finally
positionSucceeded ==
    \E c \in BagToSet(graphCalls) :
        /\ c.op = "updateNode" /\ c.awaitedBy.op = "updateNodePosition"
        /\ c.served /\ c.ok
        /\ graphCalls' = graphCalls (-) One1(c)
        /\ settlePosition(c.awaitedBy.id, "true")
        /\ UNCHANGED <<graphData, dataLoading, dataError, backendGraph,
                       graphOps, graphResults, dataFrom>>
        /\ UNCHANGED notViewer

\* the callback answered with success: false, or when the request throws:
\* the graph is fetched again; resolve(false) and finally come after it
positionFailed ==
    \E c \in BagToSet(graphCalls) :
        /\ c.op = "updateNode" /\ c.awaitedBy.op = "updateNodePosition"
        /\ \/ /\ c.served /\ ~c.ok
              /\ fetchGraphData(graphCalls (-) One1(c), graphOps,
                                c.awaitedBy)
           \/ /\ graphOps.thrown < MaxThrown
              /\ fetchGraphData(graphCalls (-) One1(c), Throws(graphOps),
                                c.awaitedBy)
        /\ UNCHANGED <<graphData, backendGraph, graphResults, dataFrom>>
        /\ UNCHANGED positionVars
        /\ UNCHANGED notViewer

---------------------------------------------------------------------------
(* Claims about the graph of the viewer, checked under SpecGraph *)

LocalEdges ==
    IF graphData = Null THEN {}
    ELSE {graphData.edges[k] : k \in 1..Len(graphData.edges)}

LocalNodeIds == IF graphData = Null THEN {} ELSE NodeIdsOf(graphData)

\* C19: after any sequence of connect, createEdge and add-child operations
\* no edge of the local graph has its source node as its target node.
C19_NoSelfLoops ==
    \A e \in LocalEdges : e.sourceNodeId # e.targetNodeId

\* C20: whatever the interleaving of createNode, createEdge, deleteEdge and
\* deleteNode calls with the answers of the backend, every edge of the local
\* graph has its source node and its target node in the local node list.
C20_NoDanglingEdge ==
    \A e \in LocalEdges :
        /\ e.sourceNodeId \in LocalNodeIds
        /\ e.targetNodeId \in LocalNodeIds

RelationshipTypes == {"prerequisite", "related", "depends_on", "leads_to"}

\* C21: every edge the viewer asks the backend to create, by a connection
\* on the canvas or by "Add Child Node", carries a relationshipType among
\* prerequisite, related, depends_on and leads_to and a weight in [0, 1].
C21_EdgeRequestsTyped ==
    \A c \in BagToSet(graphCalls) :
        c.op = "createEdge"
            => /\ c.edgeData.relationshipType \in RelationshipTypes
               /\ c.edgeData.weight \in 0..10

(* Claims about optimistic updates, checked under SpecRevert *)

SeqSet(q) == {q[k] : k \in 1..Len(q)}

\* the local graph shows what the backend stores
LocalIsServer ==
    /\ graphData # Null
    /\ SeqSet(graphData.nodes) = backendGraph.nodes
    /\ SeqSet(graphData.edges) = backendGraph.edges

FailedCalls == {r \in graphResults : r.op \in Optimistic /\ r.value = "false"}

\* C23: when the backend rejects an updateNode, deleteNode or deleteEdge, or
\* the request throws, the handler returns false and, once every request
\* has settled, the local graph is the backend's graph again.
C23_FailureReverted ==
    (FailedCalls # {} /\ graphCalls = EmptyBag) => LocalIsServer

\* C28: when fetches of the graph overlap, the response of an earlier
\* fetchGraphData never replaces what is displayed from a later one: once
\* graphData was set from a fetch, a response of a fetch issued before it
\* changes nothing
C28_LastIssuedWins == [][dataFrom' < dataFrom => graphData' = graphData]_vars

(* Claims about updateNodePosition, checked under SpecPosition *)

\* the calls of one burst of calls for a node
BurstCalls(nodeId, burst) ==
    {k \in DOMAIN positionCalls :
        /\ positionCalls[k].nodeId = nodeId
        /\ positionCalls[k].burst = burst}

Bursts ==
    {<<positionCalls[k].nodeId, positionCalls[k].burst>> :
        k \in DOMAIN positionCalls}

\* the calls of a burst whose timer has sent its request
Sent(calls) == {k \in calls : positionCalls[k].timer = "fired"}

LastOf(calls) == CHOOSE k \in calls : \A j \in calls : j <= k

\* C24: of a burst of updateNodePosition calls for one node, each less than
\* 500 ms after the previous one, only the last call sends a request (with
\* its own position), and it does once its 500 ms have run out; a call never
\* cancels the pending update of another node.
C24_DebouncedPerNode ==
    /\ \A b \in Bursts :
          LET calls == BurstCalls(b[1], b[2])
          IN /\ Sent(calls) \subseteq {LastOf(calls)}
             /\ (\A k \in calls : positionCalls[k].timer # "scheduled")
                    => Sent(calls) = {LastOf(calls)}
    /\ \A k \in DOMAIN positionCalls :
          positionCalls[k].timer = "cleared"
              => positionCalls[positionCalls[k].clearedBy].nodeId
                     = positionCalls[k].nodeId

\* nothing is going on: no timer is running, no request is in flight
PositionSettled ==
    /\ graphCalls = EmptyBag
    /\ \A k \in DOMAIN positionCalls : positionCalls[k].timer # "scheduled"

\* C27: every promise returned by updateNodePosition is resolved in the
\* end, that of a call whose timer a later call cleared included: once no
\* timer is running and no request is in flight, no promise is pending.
C27_PromisesResolve ==
    PositionSettled
        => \A k \in DOMAIN positionCalls : positionCalls[k].promise # "pending"

(* Claims about completing items one by one, checked under SpecCompletion *)

InFlightFor(id) ==
    {r \in BagToSet(completeRequests) : r.id = id}

\* C25: at any time at most one completion request of an item is in flight
\* (a further handleCompleteRevision for an item whose id is in
\* completingItems sends nothing).
C25_OneInFlightPerItem ==
    \A id \in ItemIds :
        /\ Cardinality(InFlightFor(id)) <= 1
        /\ \A r \in InFlightFor(id) : CopiesIn(r, completeRequests) <= 1

\* nothing is going on: no completion and no load is in flight
CompletionSettled ==
    /\ completeRequests = EmptyBag
    /\ itemsRequests = EmptyBag

\* C26: an id put in completingItems is taken out once its completion has
\* settled, whatever the user did meanwhile: when nothing is in flight any
\* more on the mounted page, completingItems is empty.
C26_CompletingCleared ==
    (mounted /\ CompletionSettled) => completingItems = {}

---------------------------------------------------------------------------
(* components/Revision: the date navigation of the agenda, in any of the   *)
(* zones and as far as its buttons go.                                     *)

\* the Revision page, its items loaded (none), in a browser of some zone
NavigateInit ==
    /\ zone \in Zones
    /\ clock = 2 * Quarters + 2
    /\ tz = 0
    /\ serverItems = {}
    /\ revisionItems = <<>>
    /\ selectedDate = isoDate(clock)
    /\ agenda = <<>>
    /\ stats = NoStats
    /\ completingItems = {}
    /\ showRatingModal = FALSE
    /\ selectedRevisionItem = Null
    /\ loadingRevisionItems = FALSE
    /\ mounted = TRUE
    /\ itemsRequests = EmptyBag
    /\ completeRequests = EmptyBag
    /\ bulkRequests = EmptyBag
    /\ revNotice = "none"
    /\ bulkOutcome = [kind |-> "none"]
    /\ revOps = NoOps

isMinDate == selectedDate <= minDate
isMaxDate == selectedDate >= maxDate

\* the previous-day button, disabled when isMinDate
ClickPrev ==
    /\ mounted
    /\ ~isMinDate
    /\ navigateDate("prev")
    /\ UNCHANGED <<clock, tz, serverItems, revisionItems, agenda, stats,
                   completingItems, showRatingModal, selectedRevisionItem,
                   loadingRevisionItems, mounted, itemsRequests,
                   completeRequests, bulkRequests, revNotice, bulkOutcome,
                   revOps>>
    /\ UNCHANGED notRevision

\* the next-day button, disabled when isMaxDate
ClickNext ==
    /\ mounted
    /\ ~isMaxDate
    /\ navigateDate("next")
    /\ UNCHANGED <<clock, tz, serverItems, revisionItems, agenda, stats,
                   completingItems, showRatingModal, selectedRevisionItem,
                   loadingRevisionItems, mounted, itemsRequests,
                   completeRequests, bulkRequests, revNotice, bulkOutcome,
                   revOps>>
    /\ UNCHANGED notRevision

\* the Today button
ClickToday ==
    /\ mounted
    /\ goToToday
    /\ UNCHANGED <<clock, tz, serverItems, revisionItems, agenda, stats,
                   completingItems, showRatingModal, selectedRevisionItem,
                   loadingRevisionItems, mounted, itemsRequests,
                   completeRequests, bulkRequests, revNotice, bulkOutcome,
                   revOps>>
    /\ UNCHANGED notRevision

(* Claims about the date navigation, checked under SpecNavigate *)

\* the date a click on prev or next leaves selectedDate at
Navigated(direction) ==
    IF /\ newDateString(direction) >= minDate
       /\ newDateString(direction) <= maxDate
    THEN newDateString(direction) ELSE selectedDate

\* C30: selectedDate stays between 2020-01-01 and a year from today; from
\* any date reached, prev leaves it one day earlier and next one day later,
\* but for a step that would leave that window, which changes nothing.
C30_OneDaySteps ==
    /\ selectedDate \in minDate..maxDate
    /\ Navigated("prev") =
            IF selectedDate - 1 >= minDate THEN selectedDate - 1
            ELSE selectedDate
    /\ Navigated("next") =
            IF selectedDate + 1 <= maxDate THEN selectedDate + 1
            ELSE selectedDate

---------------------------------------------------------------------------
(* components/AddProblemFormStepper, as ImportedProblemsPage shows it for  *)
(* an imported problem.  A title is a sequence of characters; of the form  *)
(* only the fields validateStep reads are kept.  The backend is reached    *)
(* through ApiClient and only has to answer.                               *)

\* characters validTitleRegex lets pass, one of each kind
TitleClass == {"a", "1", " ", "-", "_", ",", ".", ";", ":", "(", ")"}

\* what is typed in the title field: nothing, a title validTitleRegex lets
\* pass and one it does not
Titles == {<<>>, <<"a">>, <<"a", "+">>}

\* validTitleRegex.test(value)
validTitleRegex(value) ==
    /\ Len(value) >= 1
    /\ \A i \in 1..Len(value) : value[i] \in TitleClass

\* the imported problems of the page: any of title, platform, difficulty and
\* topic may be missing
ImportedProblems ==
    [title : {<<>>, <<"a">>}, platform : {"", "LeetCode"},
     difficulty : {""}, topic : {"", "Arrays"}]

\* a || b for strings
OrElse(a, b) == IF a = "" THEN b ELSE a

\* the initialData ImportedProblemsPage builds, anew in each of its renders
initialData(p) ==
    [title |-> IF p.title = <<>> THEN <<>> ELSE p.title,
     platform |-> OrElse(p.platform, ""),
     difficulty |-> OrElse(p.difficulty, "medium"),
     topic |-> OrElse(p.topic, ""),
     outcome |-> "solved",
     timeSpent |-> 30]

\* the wizard is not on display
Unmounted ==
    /\ selectedProblem' = Null
    /\ currentStep' = 1
    /\ formData' = initialData([title |-> <<>>, platform |-> "",
                                difficulty |-> "", topic |-> ""])
    /\ isValidTitle' = TRUE
    /\ selectedNodeIds' = {}
    /\ showCreateGraphModal' = FALSE
    /\ hasGraphs' = TRUE
    /\ isSubmitting' = FALSE
    /\ graphsCheck' = FALSE

WizardIdle ==
    /\ selectedProblem = Null
    /\ currentStep = 1
    /\ formData = initialData([title |-> <<>>, platform |-> "",
                               difficulty |-> "", topic |-> ""])
    /\ isValidTitle = TRUE
    /\ selectedNodeIds = {}
    /\ showCreateGraphModal = FALSE
    /\ hasGraphs = TRUE
    /\ isSubmitting = FALSE
    /\ graphsCheck = FALSE
    /\ pageLoading = FALSE
    /\ userGraphs = 0
    /\ problemCalls = EmptyBag

\* handleAddToTracker has just opened the wizard for an imported problem;
\* load of the page may still await getTodaysAssignments
WizardInit ==
    /\ selectedProblem \in ImportedProblems
    /\ currentStep = 1
    /\ formData = initialData(selectedProblem)
    /\ isValidTitle = TRUE
    /\ selectedNodeIds = {}
    /\ showCreateGraphModal = FALSE
    /\ hasGraphs = TRUE
    /\ isSubmitting = FALSE
    /\ graphsCheck = TRUE
    /\ pageLoading \in BOOLEAN
    /\ userGraphs \in 0..1
    /\ problemCalls = EmptyBag

\* the wizard is on display and nothing covers it
OnStep(step) ==
    /\ selectedProblem # Null
    /\ ~showCreateGraphModal
    /\ currentStep = step

validateStep(step) ==
    LET one == /\ formData.title # <<>> /\ isValidTitle
               /\ formData.platform # "" /\ formData.difficulty # ""
        two == formData.topic # ""
        three == formData.outcome # "" /\ formData.timeSpent > 0
        five == hasGraphs /\ Cardinality(selectedNodeIds) > 0
    IN CASE step = 1 -> one
         [] step = 2 -> two
         [] step = 3 -> three
         [] step = 4 -> TRUE
         [] step = 5 -> five
         [] step = 6 -> one /\ two /\ three /\ five
         [] OTHER -> TRUE

\* handleChange of the title field (step 1)
handleChangeTitle ==
    \E value \in Titles :
        /\ OnStep(1)
        /\ isValidTitle' = ~(value # <<>> /\ ~validTitleRegex(value))
        /\ formData' = [formData EXCEPT !.title = value]
        /\ UNCHANGED <<currentStep, selectedNodeIds, showCreateGraphModal,
                       hasGraphs, isSubmitting, selectedProblem,
                       pageLoading, graphsCheck, userGraphs, problemCalls>>
        /\ UNCHANGED notWizard

\* handlePlatformSelect, handleDifficultySelect and quickFill (step 1)
SelectBasics ==
    /\ OnStep(1)
    /\ \/ \E platform \in {"LeetCode"} :
            formData' = [formData EXCEPT !.platform = platform]
       \/ \E difficulty \in {"medium", "hard"} :
            formData' = [formData EXCEPT !.difficulty = difficulty]
       \/ formData' = [formData EXCEPT !.platform = "LeetCode",
                                       !.difficulty = "hard",
                                       !.outcome = "hints",
                                       !.timeSpent = 60]
    /\ UNCHANGED <<currentStep, isValidTitle, selectedNodeIds,
                   showCreateGraphModal, hasGraphs, isSubmitting,
                   selectedProblem, pageLoading, graphsCheck, userGraphs,
                   problemCalls>>
    /\ UNCHANGED notWizard

\* handleTopicSelect (step 2)
handleTopicSelect ==
    \E topic \in {"Arrays"} :
        /\ OnStep(2)
        /\ formData' = [formData EXCEPT !.topic = topic]
        /\ UNCHANGED <<currentStep, isValidTitle, selectedNodeIds,
                       showCreateGraphModal, hasGraphs, isSubmitting,
                       selectedProblem, pageLoading, graphsCheck,
                       userGraphs, problemCalls>>
        /\ UNCHANGED notWizard

\* handleOutcomeSelect, handleQuickTimeSelect and handleChange of the
\* timeSpent field, a number field that takes any number (step 3)
SelectSolution ==
    /\ OnStep(3)
    /\ \/ \E outcome \in {"solved", "hints"} :
            formData' = [formData EXCEPT !.outcome = outcome]
       \/ \E time \in {30} :
            formData' = [formData EXCEPT !.timeSpent = time]
       \/ \E value \in {0} :
            formData' = [formData EXCEPT !.timeSpent = value]
    /\ UNCHANGED <<currentStep, isValidTitle, selectedNodeIds,
                   showCreateGraphModal, hasGraphs, isSubmitting,
                   selectedProblem, pageLoading, graphsCheck, userGraphs,
                   problemCalls>>
    /\ UNCHANGED notWizard

WizardNodes == 1..1

\* GraphAndNodeSelector (step 5): handleNodeSelect of a node of a graph of
\* the user, and removeNode
handleNodeSelect ==
    \E id \in WizardNodes :
        /\ OnStep(5)
        /\ ~isSubmitting
        /\ \/ /\ userGraphs > 0
              /\ id \notin selectedNodeIds
              /\ selectedNodeIds' = selectedNodeIds \cup {id}
           \/ /\ id \in selectedNodeIds
              /\ selectedNodeIds' = selectedNodeIds \ {id}
        /\ UNCHANGED <<currentStep, formData, isValidTitle,
                       showCreateGraphModal, hasGraphs, isSubmitting,
                       selectedProblem, pageLoading, graphsCheck,
                       userGraphs, problemCalls>>
        /\ UNCHANGED notWizard

StepCount == 6

\* the Next button, shown before the last step
nextStep ==
    /\ selectedProblem # Null
    /\ ~showCreateGraphModal
    /\ currentStep < StepCount
    /\ IF currentStep = 5 /\ ~hasGraphs
       THEN /\ showCreateGraphModal' = TRUE
            /\ UNCHANGED currentStep
       ELSE /\ currentStep' =
                IF validateStep(currentStep)
                THEN Min(currentStep + 1, StepCount)
                ELSE currentStep
            /\ UNCHANGED showCreateGraphModal
    /\ UNCHANGED <<formData, isValidTitle, selectedNodeIds, hasGraphs,
                   isSubmitting, selectedProblem, pageLoading, graphsCheck,
                   userGraphs, problemCalls>>
    /\ UNCHANGED notWizard

\* the Previous button, disabled on step 1
prevStep ==
    /\ selectedProblem # Null
    /\ ~showCreateGraphModal
    /\ currentStep # 1
    /\ currentStep' = Max(currentStep - 1, 1)
    /\ UNCHANGED <<formData, isValidTitle, selectedNodeIds,
                   showCreateGraphModal, hasGraphs, isSubmitting,
                   selectedProblem, pageLoading, graphsCheck, userGraphs,
                   problemCalls>>
    /\ UNCHANGED notWizard

\* what createProblem is called with
NewProblem == [form |-> formData, nodeIds |-> selectedNodeIds]

\* the Add Problem button of the last step, disabled while isSubmitting or
\* validateStep(6) fails
handleSubmit ==
    /\ OnStep(StepCount)
    /\ ~(isSubmitting \/ ~validateStep(6))
    /\ IF ~validateStep(6)
       THEN UNCHANGED <<isSubmitting, problemCalls>>
       ELSE /\ isSubmitting' = TRUE
            /\ problemCalls' = problemCalls (+) One1(NewProblem)
    /\ UNCHANGED <<currentStep, formData, isValidTitle, selectedNodeIds,
                   showCreateGraphModal, hasGraphs, selectedProblem,
                   pageLoading, graphsCheck, userGraphs>>
    /\ UNCHANGED notWizard

\* handleSubmit after the await: onSubmit of the page closes the wizard and
\* calls load
createProblemSucceeded ==
    \E c \in BagToSet(problemCalls) :
        /\ problemCalls' = problemCalls (-) One1(c)
        /\ Unmounted
        /\ pageLoading' = TRUE
        /\ UNCHANGED userGraphs
        /\ UNCHANGED notWizard

\* handleSubmit when createProblem throws
createProblemFailed ==
    \E c \in BagToSet(problemCalls) :
        /\ problemCalls' = problemCalls (-) One1(c)
        /\ isSubmitting' = FALSE
        /\ UNCHANGED <<currentStep, formData, isValidTitle, selectedNodeIds,
                       showCreateGraphModal, hasGraphs, selectedProblem,
                       pageLoading, graphsCheck, userGraphs>>
        /\ UNCHANGED notWizard

\* checkForGraphs after the await: getGraphs answered, or threw
checkForGraphs ==
    \E ok \in BOOLEAN :
        /\ selectedProblem # Null
        /\ graphsCheck
        /\ graphsCheck' = FALSE
        /\ hasGraphs' = (ok /\ userGraphs > 0)
        /\ UNCHANGED <<currentStep, formData, isValidTitle, selectedNodeIds,
                       showCreateGraphModal, isSubmitting, selectedProblem,
                       pageLoading, userGraphs, problemCalls>>
        /\ UNCHANGED notWizard

\* CreateFirstGraphModal: createGraph succeeded (handleGraphCreated), or
\* the modal is closed
handleGraphCreated ==
    /\ selectedProblem # Null
    /\ showCreateGraphModal
    /\ showCreateGraphModal' = FALSE
    /\ \/ hasGraphs' = TRUE /\ userGraphs' = 1
       \/ UNCHANGED <<hasGraphs, userGraphs>>
    /\ UNCHANGED <<currentStep, formData, isValidTitle, selectedNodeIds,
                   isSubmitting, selectedProblem, pageLoading, graphsCheck,
                   problemCalls>>
    /\ UNCHANGED notWizard

\* load of ImportedProblemsPage settles: the page renders again and hands
\* the wizard a new initialData object, which the wizard's effect on
\* [initialData] puts in formData
load ==
    /\ pageLoading
    /\ pageLoading' = FALSE
    /\ formData' = IF selectedProblem # Null
                   THEN initialData(selectedProblem)
                   ELSE formData
    /\ UNCHANGED <<currentStep, isValidTitle, selectedNodeIds,
                   showCreateGraphModal, hasGraphs, isSubmitting,
                   selectedProblem, graphsCheck, userGraphs, problemCalls>>
    /\ UNCHANGED notWizard

\* onCancel: the page closes the wizard
onCancel ==
    /\ selectedProblem # Null
    /\ ~showCreateGraphModal
    /\ Unmounted
    /\ UNCHANGED <<pageLoading, userGraphs, problemCalls>>
    /\ UNCHANGED notWizard

(* Claims about the Add Problem wizard, checked under SpecWizard *)

\* C29: in the Add Problem wizard currentStep is one of 1..6 and the steps
\* 1, 2, 3 and 5 the wizard has passed are valid: whenever currentStep > k,
\* validateStep(k) holds.
C29_PassedStepsValid ==
    selectedProblem # Null =>
        /\ currentStep \in 1..StepCount
        /\ \A k \in {1, 2, 3, 5} : currentStep > k => validateStep(k)

---------------------------------------------------------------------------
(* Specifications *)

StrengthInit ==
    /\ StrengthInputs
    /\ QueueIdle
    /\ SettingsIdle
    /\ ScheduleIdle
    /\ RevisionIdle
    /\ PropagateIdle
    /\ GraphIdle
    /\ PositionIdle
    /\ WizardIdle
    /\ ZoneIdle

StrengthNext ==
    \/ CallNormalizeStrength
    \/ CallNormalizeAgain
    \/ CallFormatStrengthContextual
    \/ CallHasNodeBeenStudied
    \/ CallGetStrengthContextual

SpecStrength == StrengthInit /\ [][StrengthNext]_vars

QueueSpecInit ==
    /\ QueueInit
    /\ StrengthIdle
    /\ SettingsIdle
    /\ ScheduleIdle
    /\ RevisionIdle
    /\ PropagateIdle
    /\ GraphIdle
    /\ PositionIdle
    /\ WizardIdle
    /\ ZoneIdle

QueueNext ==
    \/ loadGraphRevisionQueue
    \/ fetchRevisionQueueSettled
    \/ ClickNodeReview
    \/ postReviewSucceeded
    \/ postReviewFailed

SpecQueue == QueueSpecInit /\ [][QueueNext]_vars

SettingsSpecInit ==
    /\ SettingsInit
    /\ StrengthIdle
    /\ QueueIdle
    /\ ScheduleIdle
    /\ RevisionIdle
    /\ PropagateIdle
    /\ GraphIdle
    /\ PositionIdle
    /\ WizardIdle
    /\ ZoneIdle

SettingsNext ==
    \/ loadSettingsSettled
    \/ saveSettings
    \/ saveSettingsSettled
    \/ ClickPreset
    \/ ChangeSMax
    \/ ChangeGFactor
    \/ ChangeOther
    \/ ToggleAdvanced
    \/ resetToDefaults

SpecSettings == SettingsSpecInit /\ [][SettingsNext]_vars

ScheduleSpecInit ==
    /\ ScheduleInputs
    /\ StrengthIdle
    /\ QueueIdle
    /\ SettingsIdle
    /\ RevisionIdle
    /\ PropagateIdle
    /\ GraphIdle
    /\ PositionIdle
    /\ WizardIdle
    /\ ZoneIdle

ScheduleNext == CallSchedule

SpecSchedule == ScheduleSpecInit /\ [][ScheduleNext]_vars

RevisionSpecInit ==
    /\ RevisionInit
    /\ StrengthIdle
    /\ QueueIdle
    /\ SettingsIdle
    /\ ScheduleIdle
    /\ PropagateIdle
    /\ GraphIdle
    /\ PositionIdle
    /\ WizardIdle
    /\ ZoneIdle

RevisionNext ==
    \/ getRevisionItemsServed
    \/ loadRevisionItemsSucceeded
    \/ loadRevisionItemsFailed
    \/ handleMarkCompleted
    \/ CancelRatingModal
    \/ CallCompleteRevision
    \/ completionSucceeded
    \/ completionFailed
    \/ Navigate
    \/ Unmount
    \/ DeleteArtifact

SpecRevision == RevisionSpecInit /\ [][RevisionNext]_vars

CompletionSpecInit ==
    /\ CompletionInit
    /\ StrengthIdle
    /\ QueueIdle
    /\ SettingsIdle
    /\ ScheduleIdle
    /\ PropagateIdle
    /\ GraphIdle
    /\ PositionIdle
    /\ WizardIdle
    /\ ZoneIdle

\* the page used to complete items one after the other
CompletionNext ==
    \/ getRevisionItemsServed
    \/ loadRevisionItemsSucceeded
    \/ loadRevisionItemsFailed
    \/ handleMarkCompleted
    \/ CancelRatingModal
    \/ CallCompleteRevision
    \/ completionSucceeded
    \/ completionFailed
    \/ Navigate
    \/ Unmount

SpecCompletion == CompletionSpecInit /\ [][CompletionNext]_vars

\* the page used for bulk completion only
BulkNext ==
    \/ getRevisionItemsServed
    \/ loadRevisionItemsSucceeded
    \/ loadRevisionItemsFailed
    \/ CallBulkComplete
    \/ bulkCompleteSucceeded
    \/ bulkCompleteFailed
    \/ Unmount
    \/ DeleteArtifact

SpecBulk == RevisionSpecInit /\ [][BulkNext]_vars

PropagateSpecInit ==
    /\ PropagateInputs
    /\ StrengthIdle
    /\ QueueIdle
    /\ SettingsIdle
    /\ ScheduleIdle
    /\ RevisionIdle
    /\ GraphIdle
    /\ PositionIdle
    /\ WizardIdle
    /\ ZoneIdle

PropagateNext ==
    \/ PropagateStart
    \/ PropagateStep
    \/ PropagateReturn

\* the traversal is a loop that runs to its end once entered
SpecPropagate ==
    PropagateSpecInit /\ [][PropagateNext]_vars /\ WF_vars(PropagateNext)

PositionSpecInit ==
    /\ GraphInit
    /\ PositionInit
    /\ StrengthIdle
    /\ QueueIdle
    /\ SettingsIdle
    /\ ScheduleIdle
    /\ RevisionIdle
    /\ PropagateIdle
    /\ WizardIdle
    /\ ZoneIdle

\* dragging nodes about
PositionNext ==
    \/ backendAnswers
    \/ fetchGraphDataSucceeded
    \/ fetchGraphDataFailed
    \/ CallUpdateNodePosition
    \/ timeoutFires
    \/ positionSucceeded
    \/ positionFailed

SpecPosition == PositionSpecInit /\ [][PositionNext]_vars

GraphSpecInit ==
    /\ GraphInit
    /\ StrengthIdle
    /\ QueueIdle
    /\ SettingsIdle
    /\ ScheduleIdle
    /\ RevisionIdle
    /\ PropagateIdle
    /\ PositionIdle
    /\ WizardIdle
    /\ ZoneIdle

GraphNext ==
    \/ backendAnswers
    \/ fetchGraphDataSucceeded
    \/ fetchGraphDataFailed
    \/ CallCreateNode
    \/ createNodeSucceeded
    \/ createNodeFailed
    \/ CallOnConnect
    \/ createEdgeSucceeded
    \/ createEdgeFailed
    \/ CallDeleteNode
    \/ CallDeleteEdge
    \/ optimisticSucceeded
    \/ optimisticFailed

\* edits with an optimistic update, and their reverts
RevertNext ==
    \/ backendAnswers
    \/ fetchGraphDataSucceeded
    \/ fetchGraphDataFailed
    \/ CallUpdateNode
    \/ CallDeleteNode
    \/ CallDeleteEdge
    \/ optimisticSucceeded
    \/ optimisticFailed

SpecRevert == GraphSpecInit /\ [][RevertNext]_vars

SpecGraph == GraphSpecInit /\ [][GraphNext]_vars

WizardSpecInit ==
    /\ WizardInit
    /\ StrengthIdle
    /\ QueueIdle
    /\ SettingsIdle
    /\ ScheduleIdle
    /\ RevisionIdle
    /\ PropagateIdle
    /\ GraphIdle
    /\ PositionIdle
    /\ ZoneIdle

WizardNext ==
    \/ handleChangeTitle
    \/ SelectBasics
    \/ handleTopicSelect
    \/ SelectSolution
    \/ handleNodeSelect
    \/ nextStep
    \/ prevStep
    \/ handleSubmit
    \/ createProblemSucceeded
    \/ createProblemFailed
    \/ checkForGraphs
    \/ handleGraphCreated
    \/ load
    \/ onCancel

SpecWizard == WizardSpecInit /\ [][WizardNext]_vars

NavigateSpecInit ==
    /\ NavigateInit
    /\ StrengthIdle
    /\ QueueIdle
    /\ SettingsIdle
    /\ ScheduleIdle
    /\ PropagateIdle
    /\ GraphIdle
    /\ PositionIdle
    /\ WizardIdle

NavigateNext ==
    \/ ClickPrev
    \/ ClickNext
    \/ ClickToday

SpecNavigate == NavigateSpecInit /\ [][NavigateNext]_vars

===========================================================================
